---- MODULE Spec2Model ----
(***************************************************************************)
(* FaultLine: the file-backed rule store (package state), the HTTP         *)
(* fault-injection proxy (package proxy) and the TCP fault-injection       *)
(* proxy (package tcp), as state machines.                                 *)
(*                                                                         *)
(* Strings that the code inspects character by character (rule targets,    *)
(* request paths) are tuples of one-character strings.                     *)
(***************************************************************************)
EXTENDS Integers, Sequences, FiniteSets, TLC

\* ------------------------------------------------------------------------
\* Bounds
\* ------------------------------------------------------------------------
\* number of calls whose result is recorded (store, proxy) and of
\* out-of-band writes in one behaviour
MaxCalls == 2
\* largest value of the file system's clock
MaxClock == 2

\* ------------------------------------------------------------------------
\* Rules
\* ------------------------------------------------------------------------
Ids == {"a", "b"}

\* the IDs uuid.New().String() gives to imported rules
Uuids == {"u1", "u2", "u3", "u4"}

\* the IDs of the model in the byte order of Go strings
IdOrder == <<"a", "b", "u1", "u2", "u3", "u4">>

IdRank(x) == CHOOSE i \in 1..Len(IdOrder) : IdOrder[i] = x

\* sort.Slice compares the IDs with <, the byte order of Go strings
IdLess(x, y) == IdRank(x) < IdRank(y)

ErrorFailure == [Type |-> "error", LatencyMs |-> 0, ErrorCode |-> 500]

LatencyFailure == [Type |-> "latency", LatencyMs |-> 5, ErrorCode |-> 0]

TimeoutFailure == [Type |-> "timeout", LatencyMs |-> 7, ErrorCode |-> 0]

Error503Failure == [Type |-> "error", LatencyMs |-> 0, ErrorCode |-> 503]

\* a flaky failure as the rule's JSON or YAML gives it, the probability in
\* percent; Failure of package state has no field for the probability, and
\* the first version of the proxy reads none
FlakyFailure(p) == [Type |-> "flaky", LatencyMs |-> 0, ErrorCode |-> 0, Probability |-> p]

\* type Rule struct { ID, Target, Failure, Enabled }
Rule(id, t, f, e) == [ID |-> id, Target |-> t, Failure |-> f, Enabled |-> e]

\* the rules the store operations are called with: the empty target and a
\* one-character target, enabled or not
StoreRules == {Rule(i, t, ErrorFailure, e) : i \in Ids, t \in {<< >>, <<"h">>}, e \in BOOLEAN}

NoRule == [ID |-> "", Target |-> << >>, Failure |-> [Type |-> "", LatencyMs |-> 0, ErrorCode |-> 0], Enabled |-> FALSE]

\* the data file: whether it exists, whether json.Unmarshal accepts its
\* content, the array of rules it holds, its modification time
File(valid, data, mtime) == [exists |-> TRUE, valid |-> valid, data |-> data, mtime |-> mtime]

NoFile == [exists |-> FALSE, valid |-> FALSE, data |-> << >>, mtime |-> 0]

VARIABLES
  rules,        \* RuleState.rules: the map, as the set of its values
  fileModTime,  \* RuleState.fileModTime (0 is the zero time)
  dataFile,     \* RuleState.dataFile ("" when the store has no file)
  file,         \* the data file: [exists, valid, data, mtime]
  clock,        \* the file system's clock
  ld,           \* the CheckAndReloadIfModified call in progress
  last,         \* the last call of the store and its result
  nCalls,       \* number of calls made
  http,         \* the last HTTP request the proxy handled and its response
  faults,       \* tcp.Proxy.rule.Faults
  nAccepted,    \* connections the listener has accepted
  upstreamDials,\* connections the upstream has been dialed for
  conn,         \* the connection handleConn is running for
  copier,       \* the two copyWithFaults goroutines of that connection
  start,        \* tcp.Proxy.Start: its position, the listener, the stop channel, wg
  handlers,     \* the handler goroutines Start has started, by order of accept
  exportFile,   \* the file written by 'rules export' and read by 'rules import'
  mu,           \* RuleState.mu: the goroutine that holds it for writing, those for reading
  caller        \* the goroutines that call the store, each with its position

storeVars == <<rules, fileModTime, dataFile, file, clock, ld, last, nCalls>>

startVars == <<start, handlers>>

cliVars == <<exportFile>>

lockVars == <<mu, caller>>

tcpVars == <<faults, nAccepted, upstreamDials, conn, copier, startVars>>

vars == <<rules, fileModTime, dataFile, file, clock, ld, last, nCalls, http, tcpVars, cliVars, lockVars>>

\* ------------------------------------------------------------------------
\* The map RuleState.rules
\* ------------------------------------------------------------------------
\* a map that holds two values under one key
MapPutAppend(m, rule) == m \cup {rule}

\* rs.rules[rule.ID] = rule
MapPut(m, rule) == {r \in m : r.ID # rule.ID} \cup {rule}

\* _, ok := rs.rules[id]
MapHas(m, id) == \E r \in m : r.ID = id

\* delete(rs.rules, id)
MapDelete(m, id) == {r \in m : r.ID # id}

RECURSIVE LoadList(_, _)
\* for _, rule := range rules { rs.rules[rule.ID] = rule }
LoadList(m, list) ==
  IF list = << >> THEN m ELSE LoadList(MapPut(m, Head(list)), Tail(list))

RECURSIVE SortByID(_)
\* sort.Slice(rules, func(i, j int) bool { return rules[i].ID < rules[j].ID })
SortByID(S) ==
  IF S = {} THEN << >>
  ELSE LET m == CHOOSE r \in S : \A q \in S : ~IdLess(q.ID, r.ID)
       IN <<m>> \o SortByID(S \ {m})

RECURSIVE RangeOrder(_)
\* the rules in an order that is not the order of their IDs
RangeOrder(S) ==
  IF S = {} THEN << >>
  ELSE LET m == CHOOSE r \in S : \A q \in S : ~IdLess(r.ID, q.ID)
       IN <<m>> \o RangeOrder(S \ {m})

\* getRulesInternal that lists the enabled rules before the disabled ones
getRulesEnabledFirst(m) ==
  SortByID({r \in m : r.Enabled}) \o SortByID({r \in m : ~r.Enabled})

\* getRulesInternal returns the values of the map sorted by ID
getRulesInternal(m) == SortByID(m)

\* ------------------------------------------------------------------------
\* Persistence
\* ------------------------------------------------------------------------
\* what os.WriteFile does: it writes the file, it fails before touching the
\* file, or it fails after truncating it
WriteOutcomes == {"ok", "openfail", "partial"}

\* saveToFile, called with the lock held, on the map m
saveToFile(m, w) ==
  IF dataFile = "" THEN file
  ELSE IF w = "ok" THEN File(TRUE, getRulesInternal(m), clock)
  ELSE IF w = "partial" THEN File(FALSE, << >>, clock)
  ELSE file

\* saveToFile returned nil
Saved(w) == dataFile = "" \/ w = "ok"

\* ------------------------------------------------------------------------
\* Matching
\* ------------------------------------------------------------------------
\* the match condition without the test of Enabled
RuleMatchesAnyState(rule, targetURL) ==
  /\ Len(rule.Target) > 0
  /\ Len(targetURL) >= Len(rule.Target)
  /\ SubSeq(targetURL, 1, Len(rule.Target)) = rule.Target

\* the match condition with equality in place of the prefix test
RuleMatchesWhole(rule, targetURL) ==
  /\ rule.Enabled
  /\ Len(rule.Target) > 0
  /\ targetURL = rule.Target

\* rule.Enabled && len(rule.Target) > 0 && len(targetURL) >= len(rule.Target)
\*   && targetURL[:len(rule.Target)] == rule.Target
RuleMatches(rule, targetURL) ==
  /\ rule.Enabled
  /\ Len(rule.Target) > 0
  /\ Len(targetURL) >= Len(rule.Target)
  /\ SubSeq(targetURL, 1, Len(rule.Target)) = rule.Target

\* what FindRuleForTarget can return: it ranges over the map, in the order
\* the run time picks, and returns the first rule that matches
FindResults(m, targetURL) ==
  LET matching == {r \in m : RuleMatches(r, targetURL)}
  IN IF matching = {} THEN {[ok |-> FALSE, rule |-> NoRule]}
     ELSE {[ok |-> TRUE, rule |-> r] : r \in matching}

\* ------------------------------------------------------------------------
\* Store operations
\* ------------------------------------------------------------------------
\* the record of a call: its number, the operation, the rule given or found,
\* whether the rule's ID was in the store, the result, whether the file was
\* written, the URL looked up, the list returned, the number given to a
\* command of the CLI
NoCall ==
  [n |-> 0, op |-> "", rule |-> NoRule, had |-> FALSE, ok |-> FALSE, saved |-> FALSE,
   url |-> << >>, list |-> << >>, num |-> 0]

Idle == [pc |-> "idle", mt |-> 0, data |-> << >>, ret |-> "none"]

AddRule(rule, w) ==
  /\ nCalls < MaxCalls
  /\ rules' = MapPut(rules, rule)
  /\ file' = saveToFile(rules', w)
  /\ last' = [n |-> nCalls + 1, op |-> "add", rule |-> rule, had |-> MapHas(rules, rule.ID), ok |-> TRUE, saved |-> Saved(w), url |-> << >>, list |-> << >>, num |-> 0]
  /\ nCalls' = nCalls + 1
  /\ UNCHANGED <<fileModTime, dataFile, clock, ld, http, tcpVars, cliVars, lockVars>>

\* UpdateRule that inserts the rule when its ID is not in the store
UpdateRuleUpsert(rule, w) ==
  /\ nCalls < MaxCalls
  /\ rules' = MapPut(rules, rule)
  /\ file' = saveToFile(rules', w)
  /\ last' = [n |-> nCalls + 1, op |-> "update", rule |-> rule, had |-> MapHas(rules, rule.ID), ok |-> MapHas(rules, rule.ID), saved |-> Saved(w), url |-> << >>, list |-> << >>, num |-> 0]
  /\ nCalls' = nCalls + 1
  /\ UNCHANGED <<fileModTime, dataFile, clock, ld, http, tcpVars, cliVars, lockVars>>

UpdateRule(rule, w) ==
  /\ nCalls < MaxCalls
  /\ IF ~MapHas(rules, rule.ID)
     THEN /\ last' = [n |-> nCalls + 1, op |-> "update", rule |-> rule, had |-> MapHas(rules, rule.ID), ok |-> FALSE, saved |-> FALSE, url |-> << >>, list |-> << >>, num |-> 0]
          /\ UNCHANGED <<rules, file>>
     ELSE /\ rules' = MapPut(rules, rule)
          /\ file' = saveToFile(rules', w)
          /\ last' = [n |-> nCalls + 1, op |-> "update", rule |-> rule, had |-> MapHas(rules, rule.ID), ok |-> TRUE, saved |-> Saved(w), url |-> << >>, list |-> << >>, num |-> 0]
  /\ nCalls' = nCalls + 1
  /\ UNCHANGED <<fileModTime, dataFile, clock, ld, http, tcpVars, cliVars, lockVars>>

\* DeleteRule that keeps the rule and returns false when the write fails
DeleteRuleUndoneOnFailedSave(id, w) ==
  /\ nCalls < MaxCalls
  /\ IF ~MapHas(rules, id) \/ ~Saved(w)
     THEN /\ last' = [n |-> nCalls + 1, op |-> "delete", rule |-> [NoRule EXCEPT !.ID = id], had |-> MapHas(rules, id), ok |-> FALSE, saved |-> FALSE, url |-> << >>, list |-> << >>, num |-> 0]
          /\ UNCHANGED <<rules, file>>
     ELSE /\ rules' = MapDelete(rules, id)
          /\ file' = saveToFile(rules', w)
          /\ last' = [n |-> nCalls + 1, op |-> "delete", rule |-> [NoRule EXCEPT !.ID = id], had |-> MapHas(rules, id), ok |-> TRUE, saved |-> Saved(w), url |-> << >>, list |-> << >>, num |-> 0]
  /\ nCalls' = nCalls + 1
  /\ UNCHANGED <<fileModTime, dataFile, clock, ld, http, tcpVars, cliVars, lockVars>>

DeleteRule(id, w) ==
  /\ nCalls < MaxCalls
  /\ IF ~MapHas(rules, id)
     THEN /\ last' = [n |-> nCalls + 1, op |-> "delete", rule |-> [NoRule EXCEPT !.ID = id], had |-> MapHas(rules, id), ok |-> FALSE, saved |-> FALSE, url |-> << >>, list |-> << >>, num |-> 0]
          /\ UNCHANGED <<rules, file>>
     ELSE /\ rules' = MapDelete(rules, id)
          /\ file' = saveToFile(rules', w)
          /\ last' = [n |-> nCalls + 1, op |-> "delete", rule |-> [NoRule EXCEPT !.ID = id], had |-> MapHas(rules, id), ok |-> TRUE, saved |-> Saved(w), url |-> << >>, list |-> << >>, num |-> 0]
  /\ nCalls' = nCalls + 1
  /\ UNCHANGED <<fileModTime, dataFile, clock, ld, http, tcpVars, cliVars, lockVars>>

\* GetRules: getRulesInternal under the read lock
GetRules ==
  /\ nCalls < MaxCalls
  /\ last' = [NoCall EXCEPT !.n = nCalls + 1, !.op = "getAll", !.ok = TRUE,
                            !.list = getRulesInternal(rules)]
  /\ nCalls' = nCalls + 1
  /\ UNCHANGED <<rules, fileModTime, dataFile, file, clock, ld, http, tcpVars, cliVars, lockVars>>

FindRuleForTarget(targetURL) ==
  /\ nCalls < MaxCalls
  /\ \E res \in FindResults(rules, targetURL) :
       last' = [NoCall EXCEPT !.n = nCalls + 1, !.op = "find", !.url = targetURL,
                              !.ok = res.ok, !.rule = res.rule]
  /\ nCalls' = nCalls + 1
  /\ UNCHANGED <<rules, fileModTime, dataFile, file, clock, ld, http, tcpVars, cliVars, lockVars>>

\* ------------------------------------------------------------------------
\* CheckAndReloadIfModified and loadFromFile, one step per access to the
\* file system or to the store
\* ------------------------------------------------------------------------
\* CheckAndReloadIfModified up to its call of loadFromFile
CheckAndReloadIfModified ==
  /\ ld.pc = "idle"
  /\ IF dataFile = "" \/ ~file.exists
     THEN ld' = [Idle EXCEPT !.ret = "nil"]
     ELSE IF file.mtime > fileModTime
          THEN ld' = [Idle EXCEPT !.pc = "load"]
          ELSE ld' = [Idle EXCEPT !.ret = "nil"]
  /\ UNCHANGED <<rules, fileModTime, dataFile, file, clock, last, nCalls, http, tcpVars, cliVars, lockVars>>

\* loadFromFile: os.Stat
LoadStat ==
  /\ ld.pc = "load"
  /\ IF ~file.exists
     THEN ld' = [Idle EXCEPT !.ret = "nil"]
     ELSE ld' = [Idle EXCEPT !.pc = "read", !.mt = file.mtime]
  /\ UNCHANGED <<rules, fileModTime, dataFile, file, clock, last, nCalls, http, tcpVars, cliVars, lockVars>>

\* loadFromFile that records the modification time before it reads the file
LoadReadStampsTime ==
  /\ ld.pc = "read"
  /\ fileModTime' = ld.mt
  /\ IF ~file.exists \/ ~file.valid
     THEN ld' = [Idle EXCEPT !.ret = "err"]
     ELSE ld' = [ld EXCEPT !.pc = "install", !.data = file.data]
  /\ UNCHANGED <<rules, dataFile, file, clock, last, nCalls, http, tcpVars, cliVars, lockVars>>

\* loadFromFile: os.ReadFile and json.Unmarshal
LoadRead ==
  /\ ld.pc = "read"
  /\ IF ~file.exists \/ ~file.valid
     THEN ld' = [Idle EXCEPT !.ret = "err"]
     ELSE ld' = [ld EXCEPT !.pc = "install", !.data = file.data]
  /\ UNCHANGED <<rules, fileModTime, dataFile, file, clock, last, nCalls, http, tcpVars, cliVars, lockVars>>

\* loadFromFile: the part under the lock
LoadInstall ==
  /\ ld.pc = "install"
  /\ fileModTime' = ld.mt
  /\ rules' = LoadList({}, ld.data)
  /\ ld' = [Idle EXCEPT !.ret = "nil"]
  /\ UNCHANGED <<dataFile, file, clock, last, nCalls, http, tcpVars, cliVars, lockVars>>

\* ------------------------------------------------------------------------
\* The environment: another process writes or removes the file; time passes
\* ------------------------------------------------------------------------
\* what the other process writes: arrays of rules (one of them names an ID
\* twice), or text that is not JSON
OobFiles ==
  { [valid |-> TRUE, data |-> << >>],
    [valid |-> TRUE, data |-> <<Rule("b", <<"h">>, ErrorFailure, TRUE)>>],
    [valid |-> TRUE, data |-> <<Rule("a", <<"h">>, ErrorFailure, FALSE), Rule("a", << >>, ErrorFailure, TRUE)>>],
    [valid |-> FALSE, data |-> << >>] }

OobWrite(content) ==
  /\ nCalls < MaxCalls
  /\ dataFile # ""
  /\ file' = File(content.valid, content.data, clock)
  /\ nCalls' = nCalls + 1
  /\ UNCHANGED <<rules, fileModTime, dataFile, clock, ld, last, http, tcpVars, cliVars, lockVars>>

OobRemove ==
  /\ nCalls < MaxCalls
  /\ file.exists
  /\ file' = NoFile
  /\ nCalls' = nCalls + 1
  /\ UNCHANGED <<rules, fileModTime, dataFile, clock, ld, last, http, tcpVars, cliVars, lockVars>>

Tick ==
  /\ clock < MaxClock
  /\ clock' = clock + 1
  /\ UNCHANGED <<rules, fileModTime, dataFile, file, ld, last, nCalls, http, tcpVars, cliVars, lockVars>>

\* ------------------------------------------------------------------------
\* url.Parse, on the characters the requests of the model are made of:
\* the letters h and x, the colon, the slash and the question mark
\* ------------------------------------------------------------------------
IsLetter(c) == c \in {"h", "x"}

\* index of the first character of s for which the test holds, 0 if none
RECURSIVE IndexFrom(_, _, _)
IndexFrom(s, i, c) ==
  IF i > Len(s) THEN 0 ELSE IF s[i] = c THEN i ELSE IndexFrom(s, i + 1, c)

Index(s, c) == IndexFrom(s, 1, c)

RECURSIVE FirstNonLetter(_, _)
FirstNonLetter(s, i) ==
  IF i > Len(s) THEN 0 ELSE IF ~IsLetter(s[i]) THEN i ELSE FirstNonLetter(s, i + 1)

HasPrefix(s, p) == Len(s) >= Len(p) /\ SubSeq(s, 1, Len(p)) = p

Drop(s, k) == SubSeq(s, k + 1, Len(s))

BadURL == [err |-> TRUE, Scheme |-> << >>, Host |-> << >>, Path |-> << >>, RawQuery |-> << >>]

\* url.Parse: the scheme up to the first colon (a colon in first place is
\* "missing protocol scheme"), the query after the first question mark, an
\* authority after "//" (a port that is not a number is "invalid port"),
\* and a first path segment of a scheme-less URL may hold no colon
UrlParse(rawURL) ==
  LET i == FirstNonLetter(rawURL, 1)
      hasScheme == i > 1 /\ rawURL[i] = ":"
      scheme == IF hasScheme THEN SubSeq(rawURL, 1, i - 1) ELSE << >>
      afterScheme == IF hasScheme THEN Drop(rawURL, i) ELSE rawURL
      q == Index(afterScheme, "?")
      rest == IF q = 0 THEN afterScheme ELSE SubSeq(afterScheme, 1, q - 1)
      query == IF q = 0 THEN << >> ELSE Drop(afterScheme, q)
      slash == Index(rest, "/")
      segment == IF slash = 0 THEN rest ELSE SubSeq(rest, 1, slash - 1)
      hasAuthority == HasPrefix(rest, <<"/", "/">>) /\ (hasScheme \/ ~HasPrefix(rest, <<"/", "/", "/">>))
      afterSlashes == Drop(rest, 2)
      s2 == Index(afterSlashes, "/")
      authority == IF s2 = 0 THEN afterSlashes ELSE SubSeq(afterSlashes, 1, s2 - 1)
      path == IF hasAuthority THEN (IF s2 = 0 THEN << >> ELSE Drop(afterSlashes, s2 - 1)) ELSE rest
      colon == Index(authority, ":")
  IN IF i = 1 /\ rawURL[1] = ":" THEN BadURL
     ELSE IF ~HasPrefix(rest, <<"/">>) /\ hasScheme
          THEN [err |-> FALSE, Scheme |-> scheme, Host |-> << >>, Path |-> << >>, RawQuery |-> query]
     ELSE IF ~HasPrefix(rest, <<"/">>) /\ Index(segment, ":") > 0 THEN BadURL
     ELSE IF hasAuthority /\ colon > 0 /\ colon < Len(authority) THEN BadURL
     ELSE [err |-> FALSE, Scheme |-> scheme,
           Host |-> IF hasAuthority THEN authority ELSE << >>,
           Path |-> path, RawQuery |-> query]

\* ------------------------------------------------------------------------
\* The HTTP proxy
\* ------------------------------------------------------------------------
InjectedErrorBody == "FaultLine: Injected Error Response"

\* the answer of the upstream to a forwarded request, or no answer
Upstreams ==
  { [ok |-> TRUE, status |-> 200, body |-> "upstream body"],
    [ok |-> TRUE, status |-> 404, body |-> "upstream not found"],
    [ok |-> FALSE, status |-> 0, body |-> ""] }

\* The Access-Control-Allow-* headers the handler sets, with the value of
\* Access-Control-Allow-Origin
CorsHeaders(origin) ==
  { <<"Access-Control-Allow-Origin", origin>>,
    <<"Access-Control-Allow-Headers", "Content-Type">>,
    <<"Access-Control-Allow-Methods", "GET, POST, PUT, DELETE, OPTIONS">> }

NoResponse ==
  [status |-> 0, body |-> "", src |-> "", slept |-> 0, forwards |-> << >>, headers |-> {}]

\* strings.TrimPrefix(r.URL.Path, "/")
TrimSlash(path) == IF HasPrefix(path, <<"/">>) THEN Drop(path, 1) ELSE path

\* targetURLString of HandleRequest: the path without its first slash, and
\* "?" and the raw query when there is one
RequestTarget(path, rawQuery) ==
  IF rawQuery # << >> THEN TrimSlash(path) \o <<"?">> \o rawQuery ELSE TrimSlash(path)

\* serveReverseProxy that answers 200 instead of relaying the upstream's answer
serveReverseProxyOwnStatus(target, up, w) ==
  LET remote == UrlParse(target)
  IN IF remote.err
     THEN [w EXCEPT !.status = 400, !.body = "Invalid target URL", !.src = "invalid"]
     ELSE [w EXCEPT !.status = 200, !.body = "", !.src = "upstream",
                    !.forwards = Append(w.forwards, [target |-> target, Scheme |-> remote.Scheme,
                                   Host |-> remote.Host, Path |-> remote.Path, RawQuery |-> remote.RawQuery,
                                   ReqHost |-> remote.Host, after |-> w.slept])]

\* serveReverseProxy whose director leaves the path of the request as it came
\* in, the whole target behind a slash
serveReverseProxyKeepsPath(target, up, w) ==
  LET remote == UrlParse(target)
      sent == [target |-> target, Scheme |-> remote.Scheme, Host |-> remote.Host,
               Path |-> <<"/">> \o target, RawQuery |-> remote.RawQuery,
               ReqHost |-> remote.Host, after |-> w.slept]
  IN IF remote.err
     THEN [w EXCEPT !.status = 400, !.body = "Invalid target URL", !.src = "invalid"]
     ELSE IF up.ok /\ remote.Scheme # << >> /\ remote.Host # << >>
          THEN [w EXCEPT !.status = up.status, !.body = up.body, !.src = "upstream",
                         !.headers = CorsHeaders("*"),
                         !.forwards = Append(w.forwards, sent)]
          ELSE [w EXCEPT !.status = 502, !.body = "", !.src = "gateway",
                         !.forwards = Append(w.forwards, sent)]

\* serveReverseProxy: 400 when url.Parse fails; otherwise the reverse proxy
\* sends one request, rewritten by the director (URL scheme, host, path and
\* query, and the Host of the request, from the parsed target), and relays
\* the answer with the headers ModifyResponse sets (the requests carry no
\* Origin header), or answers 502 when it gets none (a URL without scheme or
\* host has none); 'after' is the time the handler had slept when the
\* request was sent
serveReverseProxy(target, up, w) ==
  LET remote == UrlParse(target)
      sent == [target |-> target, Scheme |-> remote.Scheme, Host |-> remote.Host,
               Path |-> remote.Path, RawQuery |-> remote.RawQuery,
               ReqHost |-> remote.Host, after |-> w.slept]
  IN IF remote.err
     THEN [w EXCEPT !.status = 400, !.body = "Invalid target URL", !.src = "invalid"]
     ELSE IF up.ok /\ remote.Scheme # << >> /\ remote.Host # << >>
          THEN [w EXCEPT !.status = up.status, !.body = up.body, !.src = "upstream",
                         !.headers = CorsHeaders("*"),
                         !.forwards = Append(w.forwards, sent)]
          ELSE [w EXCEPT !.status = 502, !.body = "", !.src = "gateway",
                         !.forwards = Append(w.forwards, sent)]

\* injectFailure that forwards the request whatever the type of the rule
injectFailureForward(rule, path, up, w) ==
  serveReverseProxy(TrimSlash(path), up, w)

\* injectFailure that forwards first and sleeps afterwards
injectFailureSleepAfter(rule, path, up, w) ==
  LET targetURLString == TrimSlash(path)
      sent == serveReverseProxy(targetURLString, up, w)
  IN IF rule.Failure.Type = "latency"
     THEN [sent EXCEPT !.slept = w.slept + rule.Failure.LatencyMs]
     ELSE IF rule.Failure.Type = "error"
          THEN [w EXCEPT !.status = rule.Failure.ErrorCode, !.body = InjectedErrorBody, !.src = "injected"]
          ELSE sent

\* injectFailure: the target is computed again, from the path alone
injectFailure(rule, path, up, w) ==
  LET targetURLString == TrimSlash(path)
  IN IF rule.Failure.Type = "latency"
     THEN serveReverseProxy(targetURLString, up, [w EXCEPT !.slept = w.slept + rule.Failure.LatencyMs])
     ELSE IF rule.Failure.Type = "error"
          THEN [w EXCEPT !.status = rule.Failure.ErrorCode, !.body = InjectedErrorBody, !.src = "injected"]
          ELSE serveReverseProxy(targetURLString, up, w)

NoRequest ==
  [n |-> 0, method |-> "", path |-> << >>, query |-> << >>, target |-> << >>,
   matched |-> FALSE, rule |-> NoRule, up |-> [ok |-> FALSE, status |-> 0, body |-> ""],
   resp |-> NoResponse]

\* HandleRequest that treats an OPTIONS request like any other
RespondNoPreflight(method, path, rawQuery, up, res) ==
  IF res.ok
  THEN injectFailure(res.rule, path, up, NoResponse)
  ELSE serveReverseProxy(RequestTarget(path, rawQuery), up, NoResponse)

\* HandleRequest with the rule already looked up (res); an OPTIONS request
\* is answered before the lookup
Respond(method, path, rawQuery, up, res) ==
  IF method = "OPTIONS"
  THEN [NoResponse EXCEPT !.status = 200, !.src = "options", !.headers = CorsHeaders("*")]
  ELSE IF res.ok
       THEN injectFailure(res.rule, path, up, NoResponse)
       ELSE serveReverseProxy(RequestTarget(path, rawQuery), up, NoResponse)

HandleRequest(method, path, rawQuery, up) ==
  /\ nCalls < MaxCalls
  /\ \E res \in FindResults(rules, RequestTarget(path, rawQuery)) :
       LET looked == IF method = "OPTIONS" THEN [ok |-> FALSE, rule |-> NoRule] ELSE res
       IN http' = [n |-> nCalls + 1, method |-> method, path |-> path, query |-> rawQuery,
                   target |-> RequestTarget(path, rawQuery),
                   matched |-> looked.ok, rule |-> looked.rule, up |-> up,
                   resp |-> Respond(method, path, rawQuery, up, looked)]
  /\ nCalls' = nCalls + 1
  /\ UNCHANGED <<rules, fileModTime, dataFile, file, clock, ld, last, tcpVars, cliVars, lockVars>>

Methods == {"GET", "OPTIONS"}

\* r.URL.Path of the requests: targets no rule matches (x, and one that
\* url.Parse rejects), and targets that start with h: without host, with
\* scheme and host, and with a port that is not a number
ReqPaths ==
  { <<"/", "x">>,
    <<"/", ":">>,
    <<"/", "h", ":">>,
    <<"/", "h", ":", "/", "/", "x">>,
    <<"/", "x", ":", "/", "/", "h", "/", "x">>,
    <<"/", "h", ":", "/", "/", "x", ":", "h">> }

ReqQueries == {<< >>, <<"x">>}

\* ------------------------------------------------------------------------
\* The TCP proxy: handleConn and its two copyWithFaults goroutines.  The
\* data of a stream is counted in blocks of 1024 bytes, a probability in
\* percent, a duration in milliseconds.
\* ------------------------------------------------------------------------
MaxConns == 2

MaxChunk == 2

\* bytes of a block, the factor of int64(f.BandwidthKbps) * 1024
Block == 1024

\* bufSize := 32 * 1024, in blocks
BufBlocks == 32

\* time.Second, in milliseconds
Second == 1000

Dirs == {"c->u", "u->c"}

\* what the peer of each direction's source sends before it closes
Source(d) == IF d = "c->u" THEN <<1, 2, 3>> ELSE <<4, 5>>

\* the values of rng.Float64(), in percent
Draws == {0, 50, 99}

\* the time since windowStart that time.Now() can show; Second stands for a
\* second or more
Elapsed == {0, 500, Second}

FaultSets ==
  [RefuseConnections : BOOLEAN, LatencyMs : {0, 5}, ResetProbability : {0, 50, 100},
   DropProbability : {0, 50, 100}, BandwidthKbps : {0, 1}]

NoFaults ==
  [RefuseConnections |-> FALSE, LatencyMs |-> 0, ResetProbability |-> 0,
   DropProbability |-> 0, BandwidthKbps |-> 0]

NoConn ==
  [state |-> "none", how |-> "", clientClosed |-> FALSE, upstreamOpen |-> FALSE,
   upstreamClosed |-> FALSE, dials |-> 0, copiers |-> 0, slept |-> 0, steps |-> << >>]

\* &dirStats{} and the locals of copyWithFaults; pos is the number of blocks
\* read from the source, written what was written to the destination
NewCopier(pc) ==
  [pc |-> pc, exit |-> "", pos |-> 0, written |-> << >>,
   bytes |-> 0, chunks |-> 0, drops |-> 0, writes |-> 0,
   throttleSleep |-> 0, latencySleep |-> 0, sentThisWindow |-> 0, elapsed |-> 0]

NoCopiers == [d \in Dirs |-> NewCopier("none")]

\* handler goroutines Start starts at most
MaxHandlers == 3

\* Start before it is called: pc is its position (listen, accept, wait for
\* wg.Wait(), returned), ln the listener, stop whether the stop channel is
\* closed, watcher the goroutine that closes the listener on stop, wg the
\* counter of the WaitGroup, slept the backoff of the last failed Accept
NoStart ==
  [pc |-> "listen", ret |-> "none", ln |-> "none", stop |-> FALSE,
   watcher |-> "none", wg |-> 0, slept |-> 0]

NoHandlers == [i \in 1..MaxHandlers |-> "none"]

StartIdle == start = NoStart /\ handlers = NoHandlers

\* the goroutines of the server that call the store
Threads == {1, 2}

\* a goroutine outside the store
NoThread == [op |-> "", pc |-> "idle", mt |-> 0, data |-> << >>]

\* sync.RWMutex, unlocked
NoLock == [w |-> 0, r |-> {}]

LockIdle == mu = NoLock /\ caller = [t \in Threads |-> NoThread]

\* no file has been exported
CliIdle == exportFile = NoFile

TcpIdle ==
  /\ faults = NoFaults
  /\ nAccepted = 0
  /\ upstreamDials = 0
  /\ conn = NoConn
  /\ copier = NoCopiers
  /\ StartIdle

Min(a, b) == IF a < b THEN a ELSE b

\* ln.Accept() returned a connection and handleConn is started for it; the
\* connections are taken one after the other
Accept ==
  /\ conn.state \in {"none", "closed"}
  /\ nAccepted < MaxConns
  /\ nAccepted' = nAccepted + 1
  /\ conn' = [NoConn EXCEPT !.state = "accepted"]
  /\ copier' = NoCopiers
  /\ UNCHANGED <<faults, upstreamDials, storeVars, http, cliVars, lockVars, startVars>>

\* client.Close() and return
Closed(c, how) == [c EXCEPT !.state = "closed", !.how = how, !.clientClosed = TRUE]

\* handleConn without the RefuseConnections check
handleConnNoRefuse(draw, dialOk) ==
  /\ conn.state = "accepted"
  /\ LET slept == IF faults.LatencyMs > 0
                  THEN [conn EXCEPT !.slept = faults.LatencyMs, !.steps = <<"latency">>]
                  ELSE conn
         drawn == IF faults.ResetProbability > 0 THEN [slept EXCEPT !.steps = Append(@, "reset")] ELSE slept
         dialed == [drawn EXCEPT !.dials = 1, !.steps = Append(@, "dial")]
     IN IF faults.ResetProbability > 0 /\ draw < faults.ResetProbability
        THEN conn' = Closed(drawn, "reset") /\ UNCHANGED <<upstreamDials, copier>>
        ELSE /\ upstreamDials' = upstreamDials + 1
             /\ IF ~dialOk
                THEN conn' = Closed(dialed, "dialfail") /\ UNCHANGED copier
                ELSE /\ conn' = [dialed EXCEPT !.state = "proxying",
                                               !.upstreamOpen = TRUE, !.copiers = 2]
                     /\ copier' = [d \in Dirs |-> NewCopier("running")]
  /\ UNCHANGED <<faults, nAccepted, storeVars, http, cliVars, lockVars, startVars>>

\* handleConn that dials the upstream before the reset draw, and closes both
\* sockets on a reset
handleConnDialFirst(draw, dialOk) ==
  /\ conn.state = "accepted"
  /\ LET checked == [conn EXCEPT !.steps = <<"refuse">>]
         slept == IF faults.LatencyMs > 0
                  THEN [checked EXCEPT !.slept = faults.LatencyMs, !.steps = Append(@, "latency")]
                  ELSE checked
         dialed == [slept EXCEPT !.dials = 1, !.steps = Append(@, "dial")]
         drawn == [dialed EXCEPT !.upstreamOpen = TRUE, !.steps = Append(@, "reset")]
     IN IF faults.RefuseConnections
        THEN conn' = Closed(checked, "refused") /\ UNCHANGED <<upstreamDials, copier>>
        ELSE /\ upstreamDials' = upstreamDials + 1
             /\ IF ~dialOk
                THEN conn' = Closed(dialed, "dialfail") /\ UNCHANGED copier
                ELSE IF draw < faults.ResetProbability
                     THEN conn' = [Closed(drawn, "reset") EXCEPT !.upstreamClosed = TRUE] /\ UNCHANGED copier
                     ELSE /\ conn' = [drawn EXCEPT !.state = "proxying", !.copiers = 2]
                          /\ copier' = [d \in Dirs |-> NewCopier("running")]
  /\ UNCHANGED <<faults, nAccepted, storeVars, http, cliVars, lockVars, startVars>>

\* handleConn up to wg.Wait(): refuse check, initial latency sleep, reset
\* draw, upstream dial, start of the two copiers; steps records the steps
\* taken, in the order they were taken (the sleep when LatencyMs > 0, the
\* draw when ResetProbability > 0)
handleConn(draw, dialOk) ==
  /\ conn.state = "accepted"
  /\ LET checked == [conn EXCEPT !.steps = <<"refuse">>]
         slept == IF faults.LatencyMs > 0
                  THEN [checked EXCEPT !.slept = faults.LatencyMs, !.steps = Append(@, "latency")]
                  ELSE checked
         drawn == IF faults.ResetProbability > 0 THEN [slept EXCEPT !.steps = Append(@, "reset")] ELSE slept
         dialed == [drawn EXCEPT !.dials = 1, !.steps = Append(@, "dial")]
     IN IF faults.RefuseConnections
        THEN conn' = Closed(checked, "refused") /\ UNCHANGED <<upstreamDials, copier>>
        ELSE IF faults.ResetProbability > 0 /\ draw < faults.ResetProbability
             THEN conn' = Closed(drawn, "reset") /\ UNCHANGED <<upstreamDials, copier>>
             ELSE /\ upstreamDials' = upstreamDials + 1
                  /\ IF ~dialOk
                     THEN conn' = Closed(dialed, "dialfail") /\ UNCHANGED copier
                     ELSE /\ conn' = [dialed EXCEPT !.state = "proxying",
                                                    !.upstreamOpen = TRUE, !.copiers = 2]
                          /\ copier' = [d \in Dirs |-> NewCopier("running")]
  /\ UNCHANGED <<faults, nAccepted, storeVars, http, cliVars, lockVars, startVars>>

\* handleConn that closes the client socket only after wg.Wait()
handleConnWaitLeaksUpstream ==
  /\ conn.state = "proxying"
  /\ \A d \in Dirs : copier[d].pc = "done"
  /\ conn' = Closed(conn, "done")
  /\ UNCHANGED <<faults, nAccepted, upstreamDials, copier, storeVars, http, cliVars, lockVars, startVars>>

\* handleConn after wg.Wait(): both copiers have returned, both sockets are
\* closed
handleConnWait ==
  /\ conn.state = "proxying"
  /\ \A d \in Dirs : copier[d].pc = "done"
  /\ conn' = [Closed(conn, "done") EXCEPT !.upstreamClosed = TRUE]
  /\ UNCHANGED <<faults, nAccepted, upstreamDials, copier, storeVars, http, cliVars, lockVars, startVars>>

\* the drop test that ignores a probability above 1
ShouldDropInRange(f, draw) ==
  f.DropProbability > 0 /\ f.DropProbability <= 100 /\ draw < f.DropProbability

\* the drop test with <= in place of <
ShouldDropInclusive(f, draw) == draw <= f.DropProbability

\* f.DropProbability > 0 && rng.Float64() < f.DropProbability
ShouldDrop(f, draw) == f.DropProbability > 0 /\ draw < f.DropProbability

\* the throttling of one chunk of n blocks: the window is restarted when a
\* second has passed, and the copier sleeps to the end of the window when
\* the chunk does not fit in it
Throttle(c, f, n, el) ==
  LET bwPerSec == IF f.BandwidthKbps > 0 THEN f.BandwidthKbps * Block ELSE 0
      fresh == IF el >= Second THEN [c EXCEPT !.elapsed = 0, !.sentThisWindow = 0]
               ELSE [c EXCEPT !.elapsed = el]
      sleepDur == Second - fresh.elapsed
  IN IF bwPerSec = 0 THEN c
     ELSE IF fresh.sentThisWindow + n * Block > bwPerSec /\ sleepDur > 0
          THEN [fresh EXCEPT !.throttleSleep = @ + sleepDur, !.elapsed = 0, !.sentThisWindow = 0]
          ELSE fresh

\* an iteration of copyWithFaults that writes the chunk it has selected for
\* drop
CopyIterationWritesDropped(c, src, f, n, readErr, draw, el, wn) ==
  LET lat == IF f.LatencyMs > 0 THEN [c EXCEPT !.latencySleep = @ + f.LatencyMs] ELSE c
      rd == [lat EXCEPT !.pos = @ + n, !.chunks = @ + (IF n > 0 THEN 1 ELSE 0)]
      thr == Throttle(rd, f, n, el)
      wr == [thr EXCEPT !.written = @ \o SubSeq(src, c.pos + 1, c.pos + wn),
                        !.sentThisWindow = IF f.BandwidthKbps > 0 THEN @ + wn * Block ELSE @,
                        !.writes = @ + 1,
                        !.bytes = @ + wn * Block]
      after == IF n = 0 THEN rd
               ELSE IF ShouldDrop(f, draw)
                    THEN [rd EXCEPT !.drops = @ + 1, !.written = @ \o SubSeq(src, c.pos + 1, c.pos + n)]
               ELSE wr
  IN IF n > 0 /\ ~ShouldDrop(f, draw) /\ wn < n
     THEN [after EXCEPT !.pc = "done", !.exit = "writeerr"]
     ELSE IF readErr # "nil"
          THEN [after EXCEPT !.pc = "done", !.exit = IF readErr = "EOF" THEN "eof" ELSE "readerr"]
          ELSE after

\* an iteration of copyWithFaults that adds the size of the chunk to bytes,
\* whatever dst.Write took
CopyIterationCountsChunk(c, src, f, n, readErr, draw, el, wn) ==
  LET lat == IF f.LatencyMs > 0 THEN [c EXCEPT !.latencySleep = @ + f.LatencyMs] ELSE c
      rd == [lat EXCEPT !.pos = @ + n, !.chunks = @ + (IF n > 0 THEN 1 ELSE 0)]
      thr == Throttle(rd, f, n, el)
      wr == [thr EXCEPT !.written = @ \o SubSeq(src, c.pos + 1, c.pos + wn),
                        !.sentThisWindow = IF f.BandwidthKbps > 0 THEN @ + wn * Block ELSE @,
                        !.writes = @ + 1,
                        !.bytes = @ + n * Block]
      after == IF n = 0 THEN rd
               ELSE IF ShouldDrop(f, draw) THEN [rd EXCEPT !.drops = @ + 1]
               ELSE wr
  IN IF n > 0 /\ ~ShouldDrop(f, draw) /\ wn < n
     THEN [after EXCEPT !.pc = "done", !.exit = "writeerr"]
     ELSE IF readErr # "nil"
          THEN [after EXCEPT !.pc = "done", !.exit = IF readErr = "EOF" THEN "eof" ELSE "readerr"]
          ELSE after

\* one iteration of the loop of copyWithFaults on copier c reading from src:
\* src.Read gave n blocks and readErr, the drop draw is draw, the clock shows
\* el since the window's start, dst.Write took wn of the n blocks
CopyIteration(c, src, f, n, readErr, draw, el, wn) ==
  LET lat == IF f.LatencyMs > 0 THEN [c EXCEPT !.latencySleep = @ + f.LatencyMs] ELSE c
      rd == [lat EXCEPT !.pos = @ + n, !.chunks = @ + (IF n > 0 THEN 1 ELSE 0)]
      thr == Throttle(rd, f, n, el)
      wr == [thr EXCEPT !.written = @ \o SubSeq(src, c.pos + 1, c.pos + wn),
                        !.sentThisWindow = IF f.BandwidthKbps > 0 THEN @ + wn * Block ELSE @,
                        !.writes = @ + 1,
                        !.bytes = @ + wn * Block]
      after == IF n = 0 THEN rd
               ELSE IF ShouldDrop(f, draw) THEN [rd EXCEPT !.drops = @ + 1]
               ELSE wr
  IN IF n > 0 /\ ~ShouldDrop(f, draw) /\ wn < n
     THEN [after EXCEPT !.pc = "done", !.exit = "writeerr"]
     ELSE IF readErr # "nil"
          THEN [after EXCEPT !.pc = "done", !.exit = IF readErr = "EOF" THEN "eof" ELSE "readerr"]
          ELSE after

\* copyWithFaults of direction d runs one iteration of its loop
copyWithFaults(d) ==
  /\ conn.state = "proxying"
  /\ copier[d].pc = "running"
  /\ \E n \in 0..Min(Min(MaxChunk, BufBlocks), Len(Source(d)) - copier[d].pos),
        readErr \in {"nil", "EOF", "err"}, draw \in Draws,
        el \in {e \in Elapsed : e >= copier[d].elapsed} :
       /\ n = 0 => readErr # "nil"
       /\ readErr = "EOF" => copier[d].pos + n = Len(Source(d))
       /\ \E wn \in 0..n :
            copier' = [copier EXCEPT ![d] =
                         CopyIteration(copier[d], Source(d), faults, n, readErr, draw, el, wn)]
  /\ UNCHANGED <<faults, nAccepted, upstreamDials, conn, storeVars, http, cliVars, lockVars, startVars>>

\* ------------------------------------------------------------------------
\* tcp.Proxy.Start
\* ------------------------------------------------------------------------
StartUnchanged == UNCHANGED <<storeVars, http, cliVars, lockVars, faults, nAccepted, upstreamDials, conn, copier>>

\* net.Listen: on an error Start returns it; otherwise the goroutine that
\* waits for stop is started and the accept loop is entered
StartListen(ok) ==
  /\ start.pc = "listen"
  /\ start' = IF ok THEN [start EXCEPT !.pc = "accept", !.ln = "open", !.watcher = "blocked"]
               ELSE [start EXCEPT !.pc = "returned", !.ret = "err"]
  /\ UNCHANGED handlers
  /\ StartUnchanged

\* close(stop), by the command that started the proxy
CloseStop ==
  /\ ~start.stop
  /\ start' = [start EXCEPT !.stop = TRUE]
  /\ UNCHANGED handlers
  /\ StartUnchanged

\* the goroutine of Start that waits for stop and leaves the listener open
WatchStopKeepsListener ==
  /\ start.watcher = "blocked"
  /\ start.stop
  /\ start' = [start EXCEPT !.watcher = "done"]
  /\ UNCHANGED handlers
  /\ StartUnchanged

\* go func() { <-stop; ln.Close() }()
WatchStop ==
  /\ start.watcher = "blocked"
  /\ start.stop
  /\ start' = [start EXCEPT !.watcher = "done", !.ln = "closed"]
  /\ UNCHANGED handlers
  /\ StartUnchanged

\* the handlers started so far
Started == {i \in 1..MaxHandlers : handlers[i] # "none"}

\* ln.Accept() returns a connection: wg.Add(1) and a handler goroutine
StartAccept ==
  /\ start.pc = "accept"
  /\ start.ln = "open"
  /\ Cardinality(Started) < MaxHandlers
  /\ start' = [start EXCEPT !.wg = @ + 1]
  /\ handlers' = [handlers EXCEPT ![Cardinality(Started) + 1] = "running"]
  /\ StartUnchanged

\* ln.Accept() returns an error: net.ErrClosed once the listener is closed
\* (the loop is left), otherwise a timeout (50 ms backoff) or another error
\* (100 ms backoff) and the loop goes on
StartAcceptError(err) ==
  /\ start.pc = "accept"
  /\ IF start.ln = "closed"
     THEN err = "closed" /\ start' = [start EXCEPT !.pc = "wait"]
     ELSE /\ err \in {"timeout", "other"}
          /\ start' = [start EXCEPT !.slept = IF err = "timeout" THEN 50 ELSE 100]
  /\ UNCHANGED handlers
  /\ StartUnchanged

\* handleConn returns in handler i, and the deferred wg.Done() runs
HandlerReturn(i) ==
  /\ handlers[i] = "running"
  /\ handlers' = [handlers EXCEPT ![i] = "done"]
  /\ start' = [start EXCEPT !.wg = @ - 1]
  /\ StartUnchanged

\* Start that returns without wg.Wait()
StartReturnNoWait ==
  /\ start.pc = "wait"
  /\ start' = [start EXCEPT !.pc = "returned", !.ret = "nil"]
  /\ UNCHANGED handlers
  /\ StartUnchanged

\* wg.Wait(); return nil
StartReturn ==
  /\ start.pc = "wait"
  /\ start.wg = 0
  /\ start' = [start EXCEPT !.pc = "returned", !.ret = "nil"]
  /\ UNCHANGED handlers
  /\ StartUnchanged

\* ------------------------------------------------------------------------
\* The rules commands of the CLI
\* ------------------------------------------------------------------------
\* json.Marshal of a Failure: latencyMs and errorCode are omitted when zero
MarshalFailure(f) ==
  {<<"type", f.Type>>}
    \cup (IF f.LatencyMs # 0 THEN {<<"latencyMs", f.LatencyMs>>} ELSE {})
    \cup (IF f.ErrorCode # 0 THEN {<<"errorCode", f.ErrorCode>>} ELSE {})

\* json.Marshal of a Rule
MarshalRule(r) ==
  [id |-> r.ID, target |-> r.Target, failure |-> MarshalFailure(r.Failure), enabled |-> r.Enabled]

\* json.MarshalIndent(rules, "", "  ")
Marshal(list) == [i \in 1..Len(list) |-> MarshalRule(list[i])]

\* the member of a JSON object under a key, or the zero value of the field
JsonGet(obj, key, zero) ==
  IF \E m \in obj : m[1] = key THEN (CHOOSE m \in obj : m[1] = key)[2] ELSE zero

\* json.Unmarshal into a Failure
UnmarshalFailure(obj) ==
  [Type |-> JsonGet(obj, "type", ""), LatencyMs |-> JsonGet(obj, "latencyMs", 0),
   ErrorCode |-> JsonGet(obj, "errorCode", 0)]

\* json.Unmarshal(data, &rules)
Unmarshal(data) ==
  [i \in 1..Len(data) |->
     [ID |-> data[i].id, Target |-> data[i].target,
      Failure |-> UnmarshalFailure(data[i].failure), Enabled |-> data[i].enabled]]

\* a toggled rule that is built again from its ID and target
ToggledRebuilt(rule, enable) ==
  [ID |-> rule.ID, Target |-> rule.Target,
   Failure |-> [Type |-> "", LatencyMs |-> 0, ErrorCode |-> 0], Enabled |-> enable]

\* rule.Enabled = enable, on the copy getRuleByNumber returned
Toggled(rule, enable) == [rule EXCEPT !.Enabled = enable]

\* toggleRuleByNumber: the rule at the number in GetRules(); nothing is done
\* when there is no such number or the rule is already in the state asked
\* for, otherwise UpdateRule of the rule with the flag set
toggleRuleByNumber(number, enable, w) ==
  LET list == getRulesInternal(rules)
      op == IF enable THEN "enable" ELSE "disable"
      exists == number >= 1 /\ number <= Len(list)
  IN /\ nCalls < MaxCalls
     /\ IF ~exists \/ list[number].Enabled = enable
        THEN /\ last' = [NoCall EXCEPT !.n = nCalls + 1, !.op = op, !.list = list, !.num = number,
                                       !.rule = IF exists THEN list[number] ELSE NoRule]
             /\ UNCHANGED <<rules, file>>
        ELSE /\ rules' = MapPut(rules, Toggled(list[number], enable))
             /\ file' = saveToFile(rules', w)
             /\ last' = [NoCall EXCEPT !.n = nCalls + 1, !.op = op, !.list = list, !.num = number,
                                       !.rule = Toggled(list[number], enable),
                                       !.had = TRUE, !.ok = TRUE, !.saved = Saved(w)]
     /\ nCalls' = nCalls + 1
     /\ UNCHANGED <<fileModTime, dataFile, clock, ld, http, tcpVars, exportFile, lockVars>>

\* listRules: the rules of GetRules() are shown with the numbers 1, 2, ...
listRules ==
  /\ nCalls < MaxCalls
  /\ last' = [NoCall EXCEPT !.n = nCalls + 1, !.op = "list", !.ok = TRUE,
                            !.list = getRulesInternal(rules)]
  /\ nCalls' = nCalls + 1
  /\ UNCHANGED <<rules, fileModTime, dataFile, file, clock, ld, http, tcpVars, cliVars, lockVars>>

\* exportRules: GetRules, json.MarshalIndent, os.WriteFile
exportRules(w) ==
  LET list == getRulesInternal(rules)
  IN /\ nCalls < MaxCalls
     /\ exportFile' = IF w = "ok" THEN File(TRUE, Marshal(list), clock)
                      ELSE IF w = "partial" THEN File(FALSE, << >>, clock)
                      ELSE exportFile
     /\ last' = [NoCall EXCEPT !.n = nCalls + 1, !.op = "export", !.ok = (w = "ok"), !.list = list]
     /\ nCalls' = nCalls + 1
     /\ UNCHANGED <<rules, fileModTime, dataFile, file, clock, ld, http, tcpVars, lockVars>>

\* the IDs not in the map, in order
RECURSIVE FreeIds(_, _)
FreeIds(taken, k) ==
  IF k > Len(IdOrder) THEN << >>
  ELSE (IF IdOrder[k] \in Uuids \ taken THEN <<IdOrder[k]>> ELSE << >>) \o FreeIds(taken, k + 1)

\* uuid.New() that returns the same ID at every call
NewUUIDRepeated(taken, i) == FreeIds(taken, 1)[1]

\* uuid.New().String() at its i-th call: an ID that was never given
NewUUID(taken, i) == FreeIds(taken, 1)[i]

\* importRules: os.ReadFile, json.Unmarshal, then AddRule of every rule
\* under a new ID
importRules(w) ==
  LET list == Unmarshal(exportFile.data)
      taken == {r.ID : r \in rules}
      fresh == [i \in 1..Len(list) |-> [list[i] EXCEPT !.ID = NewUUID(taken, i)]]
  IN /\ nCalls < MaxCalls
     /\ IF ~exportFile.exists \/ ~exportFile.valid
        THEN /\ last' = [NoCall EXCEPT !.n = nCalls + 1, !.op = "import"]
             /\ UNCHANGED <<rules, file>>
        ELSE /\ Len(list) <= Cardinality(Uuids \ taken)
             /\ rules' = LoadList(rules, fresh)
             /\ file' = IF list = << >> THEN file ELSE saveToFile(rules', w)
             /\ last' = [NoCall EXCEPT !.n = nCalls + 1, !.op = "import", !.ok = TRUE,
                                       !.saved = Saved(w), !.list = fresh]
     /\ nCalls' = nCalls + 1
     /\ UNCHANGED <<fileModTime, dataFile, clock, ld, http, tcpVars, exportFile, lockVars>>

\* a command run in a new process: NewRuleState builds the store again
NewProcess(df) ==
  /\ dataFile' = df
  /\ IF df # "" /\ file.exists /\ file.valid
     THEN rules' = LoadList({}, file.data) /\ fileModTime' = file.mtime
     ELSE rules' = {} /\ fileModTime' = 0
  /\ ld' = Idle
  /\ UNCHANGED <<file, clock, last, nCalls, http, tcpVars, cliVars, lockVars>>

\* ------------------------------------------------------------------------
\* The store called by concurrent goroutines, with its lock
\* ------------------------------------------------------------------------
LockUnchanged == UNCHANGED <<dataFile, ld, last, nCalls, http, tcpVars, cliVars>>

\* a goroutine enters CheckAndReloadIfModified, AddRule or GetRules
Call(t, op, rule) ==
  /\ caller[t].pc = "idle"
  /\ dataFile # ""
  /\ caller' = [caller EXCEPT ![t] =
                  [op |-> op, pc |-> IF op = "reload" THEN "check" ELSE IF op = "add" THEN "lock" ELSE "rlock",
                   mt |-> 0, data |-> IF op = "add" THEN <<rule>> ELSE << >>]]
  /\ UNCHANGED <<rules, fileModTime, file, clock, mu>>
  /\ LockUnchanged

\* CheckAndReloadIfModified: os.Stat, then fileInfo.ModTime().After(
\* rs.fileModTime), read with no lock held; loadFromFile when it is newer
Check(t) ==
  /\ caller[t].pc = "check"
  /\ caller' = [caller EXCEPT ![t].pc = IF file.exists /\ file.mtime > fileModTime THEN "stat" ELSE "idle"]
  /\ UNCHANGED <<rules, fileModTime, file, clock, mu>>
  /\ LockUnchanged

\* loadFromFile: os.Stat
Stat(t) ==
  /\ caller[t].pc = "stat"
  /\ caller' = [caller EXCEPT ![t] = IF file.exists THEN [@ EXCEPT !.pc = "read", !.mt = file.mtime]
                                     ELSE [@ EXCEPT !.pc = "idle"]]
  /\ UNCHANGED <<rules, fileModTime, file, clock, mu>>
  /\ LockUnchanged

\* loadFromFile: os.ReadFile and json.Unmarshal
ReadFile(t) ==
  /\ caller[t].pc = "read"
  /\ caller' = [caller EXCEPT ![t] = IF file.exists /\ file.valid THEN [@ EXCEPT !.pc = "lock", !.data = file.data]
                                     ELSE [@ EXCEPT !.pc = "idle"]]
  /\ UNCHANGED <<rules, fileModTime, file, clock, mu>>
  /\ LockUnchanged

\* rs.mu.Lock(): waits until no goroutine holds the lock
Lock(t) ==
  /\ caller[t].pc = "lock"
  /\ mu.w = 0 /\ mu.r = {}
  /\ mu' = [mu EXCEPT !.w = t]
  /\ caller' = [caller EXCEPT ![t].pc = IF caller[t].op = "reload" THEN "install" ELSE "put"]
  /\ UNCHANGED <<rules, fileModTime, file, clock>>
  /\ LockUnchanged

\* loadFromFile: rs.fileModTime and rs.rules are assigned
Install(t) ==
  /\ caller[t].pc = "install"
  /\ fileModTime' = caller[t].mt
  /\ rules' = LoadList({}, caller[t].data)
  /\ caller' = [caller EXCEPT ![t].pc = "unlock"]
  /\ UNCHANGED <<file, clock, mu>>
  /\ LockUnchanged

\* AddRule: rs.rules[rule.ID] = rule; rs.saveToFile()
Put(t, w) ==
  /\ caller[t].pc = "put"
  /\ rules' = MapPut(rules, caller[t].data[1])
  /\ file' = saveToFile(rules', w)
  /\ caller' = [caller EXCEPT ![t].pc = "unlock"]
  /\ UNCHANGED <<fileModTime, clock, mu>>
  /\ LockUnchanged

\* defer rs.mu.Unlock()
Unlock(t) ==
  /\ caller[t].pc = "unlock"
  /\ mu' = [mu EXCEPT !.w = 0]
  /\ caller' = [caller EXCEPT ![t] = NoThread]
  /\ UNCHANGED <<rules, fileModTime, file, clock>>
  /\ LockUnchanged

\* GetRules: rs.mu.RLock(): waits until no goroutine holds the lock for writing
RLock(t) ==
  /\ caller[t].pc = "rlock"
  /\ mu.w = 0
  /\ mu' = [mu EXCEPT !.r = @ \cup {t}]
  /\ caller' = [caller EXCEPT ![t].pc = "snapshot"]
  /\ UNCHANGED <<rules, fileModTime, file, clock>>
  /\ LockUnchanged

\* GetRules: rs.getRulesInternal()
Snapshot(t) ==
  /\ caller[t].pc = "snapshot"
  /\ caller' = [caller EXCEPT ![t].pc = "runlock", ![t].data = getRulesInternal(rules)]
  /\ UNCHANGED <<rules, fileModTime, file, clock, mu>>
  /\ LockUnchanged

\* defer rs.mu.RUnlock()
RUnlock(t) ==
  /\ caller[t].pc = "runlock"
  /\ mu' = [mu EXCEPT !.r = @ \ {t}]
  /\ caller' = [caller EXCEPT ![t] = NoThread]
  /\ UNCHANGED <<rules, fileModTime, file, clock>>
  /\ LockUnchanged

\* ------------------------------------------------------------------------
\* Construction
\* ------------------------------------------------------------------------
InitFiles ==
  { NoFile,
    File(TRUE, <<Rule("a", <<"h">>, ErrorFailure, TRUE)>>, 1),
    File(FALSE, << >>, 1) }

\* initialRules of NewRuleState: nil, or rules of the configuration
InitialRuleLists ==
  { << >>,
    <<Rule("b", <<"x">>, LatencyFailure, TRUE)>>,
    <<Rule("a", <<"x">>, LatencyFailure, TRUE), Rule("b", <<"h">>, ErrorFailure, TRUE)>> }

\* NewRuleState that puts initialRules into the map and loads the file on
\* top of them
NewRuleStateSeeded(initialRules, df, f) ==
  /\ dataFile = df
  /\ file = f
  /\ IF df # "" /\ f.exists /\ f.valid
     THEN rules = LoadList(LoadList({}, initialRules), f.data) /\ fileModTime = f.mtime
     ELSE rules = LoadList({}, initialRules) /\ fileModTime = 0

\* NewRuleState: an empty map, then loadFromFile when a data file is named;
\* initialRules is not used
NewRuleState(initialRules, df, f) ==
  /\ dataFile = df
  /\ file = f
  /\ IF df # "" /\ f.exists /\ f.valid
     THEN rules = LoadList({}, f.data) /\ fileModTime = f.mtime
     ELSE rules = {} /\ fileModTime = 0

InitStore ==
  /\ \/ NewRuleState(<< >>, "", NoFile)
     \/ \E f \in InitFiles : NewRuleState(<< >>, "faultline-rules.json", f)
  /\ clock = 1
  /\ ld = Idle
  /\ last = NoCall
  /\ nCalls = 0
  /\ http = NoRequest
  /\ TcpIdle
  /\ CliIdle
  /\ LockIdle

FindTargets == {<< >>, <<"h">>, <<"x">>, <<"h", "x">>}

Mutate ==
  \/ \E r \in StoreRules, w \in WriteOutcomes : AddRule(r, w)
  \/ \E r \in StoreRules, w \in WriteOutcomes : UpdateRule(r, w)
  \/ \E i \in Ids, w \in WriteOutcomes : DeleteRule(i, w)

Observe ==
  \/ GetRules
  \/ \E u \in FindTargets : FindRuleForTarget(u)

Reload ==
  \/ CheckAndReloadIfModified
  \/ LoadStat
  \/ LoadRead
  \/ LoadInstall

Environment ==
  \/ \E c \in OobFiles : OobWrite(c)
  \/ OobRemove
  \/ Tick

Init == InitStore

\* ------------------------------------------------------------------------
\* The rule store
\* ------------------------------------------------------------------------
\* C1: FindRuleForTarget never returns a rule whose Enabled flag is false,
\* also when the store holds a disabled rule whose target is a prefix of the
\* URL: a rule it returns is a rule with Enabled set.
C1_NeverDisabled ==
  (last.op = "find" /\ last.ok) => (last.rule.Enabled /\ last.rule # NoRule)

\* FindRuleForTarget returned a rule although the store holds a disabled rule
\* whose target is a prefix of the URL
C1_Witness ==
  /\ last.op = "find" /\ last.ok /\ last.rule \in rules
  /\ \E r \in rules : ~r.Enabled /\ HasPrefix(last.url, r.Target) /\ Len(r.Target) > 0

\* C7: UpdateRule and DeleteRule called with an ID that is not in the store
\* return false and leave the map and the data file as they were.
C7_MissingIdIsNoOp ==
  [][(last'.n # last.n /\ last'.op \in {"update", "delete"} /\ ~last'.had)
       => (~last'.ok /\ rules' = rules /\ file' = file)]_vars

\* an UpdateRule that found no rule of that ID, on a store that holds a rule
\* and has a data file
C7_Witness ==
  /\ last.op = "update" /\ ~last.had /\ ~last.ok
  /\ rules # {} /\ file.exists

\* no two rules of the map have the same ID
UniqueIds(m) == \A r1 \in m, r2 \in m : r1.ID = r2.ID => r1 = r2

\* C8: the store holds at most one rule per ID, GetRules returns no two rules
\* of the same ID, and AddRule of an ID that is in the store replaces the
\* rule of that ID.
C8_OneRulePerId ==
  [][/\ UniqueIds(rules')
     /\ LET g == getRulesInternal(rules')
        IN \A i \in 1..Len(g), j \in 1..Len(g) : g[i].ID = g[j].ID => i = j
     /\ (last'.n # last.n /\ last'.op = "add")
          => /\ last'.rule \in rules'
             /\ Cardinality(rules') = Cardinality(rules) + (IF last'.had THEN 0 ELSE 1)]_vars

\* AddRule replaced the rule of an ID that was in the store, next to a rule of
\* the other ID
C8_Witness ==
  /\ last.op = "add" /\ last.had /\ last.rule \in rules
  /\ Cardinality(rules) = 2

\* C9: getRulesInternal (GetRules) returns every rule of the store once, in
\* ascending order of ID.
C9_SortedSnapshot ==
  LET g == getRulesInternal(rules)
  IN /\ Len(g) = Cardinality(rules)
     /\ {g[i] : i \in 1..Len(g)} = rules
     /\ \A i \in 1..Len(g), j \in 1..Len(g) : i < j => IdLess(g[i].ID, g[j].ID)

\* GetRules returned the two rules of the store
C9_Witness ==
  /\ last.op = "getAll" /\ Len(last.list) = 2
  /\ last.list = getRulesInternal(rules)

\* the enabled rules whose target is a prefix of the URL, the empty target
\* included
PrefixRules(m, u) == {r \in m : r.Enabled /\ HasPrefix(u, r.Target)}

C13_FailedReloadKeepsState ==
  [][/\ (ld' # ld /\ ld.pc = "read" /\ (~file.exists \/ ~file.valid))
          => (ld'.ret = "err" /\ ld'.pc = "idle")
     /\ (ld' # ld /\ ld'.ret = "err")
          => (ld.pc = "read" /\ (~file.exists \/ ~file.valid))
     /\ (ld' # ld /\ ld.pc \in {"idle", "load", "read"})
          => (rules' = rules /\ fileModTime' = fileModTime)]_vars

\* a reload has returned an error on a newer file that does not parse, and
\* the store still holds a rule
C13_Witness ==
  /\ ld.ret = "err" /\ ld.pc = "idle"
  /\ file.exists /\ ~file.valid /\ file.mtime > fileModTime
  /\ rules # {}

\* C14: when the write of the data file fails, AddRule still completes and
\* UpdateRule and DeleteRule of an ID that is in the store still return
\* true; the map holds the rule added or replaced, or no rule of the ID
\* deleted, and every rule of another ID is as it was.
C14_FailedWriteKeepsMutation ==
  [][(/\ last'.n # last.n /\ last'.op \in {"add", "update", "delete"}
      /\ dataFile # "" /\ ~last'.saved
      /\ (last'.op = "add" \/ last'.had))
       => /\ last'.ok
          /\ {r \in rules' : r.ID # last'.rule.ID} = {r \in rules : r.ID # last'.rule.ID}
          /\ {r \in rules' : r.ID = last'.rule.ID}
               = (IF last'.op = "delete" THEN {} ELSE {last'.rule})]_vars

\* UpdateRule replaced a rule and returned true although the write failed,
\* with a rule of another ID in the store
C14_Witness ==
  /\ last.op = "update" /\ last.ok /\ ~last.saved /\ dataFile # ""
  /\ last.rule \in rules /\ Cardinality(rules) = 2

\* C28: when the data file holds a change made by another process that the
\* store has not loaded, AddRule of a rule and its successful write leave a
\* file that holds the rules of the other process's file and the new rule.
C28_AddKeepsOutOfBandEdit ==
  [][(/\ last'.n # last.n /\ last'.op = "add" /\ last'.saved
      /\ dataFile # "" /\ file.exists /\ file.valid /\ file.mtime > fileModTime)
       => /\ file'.exists /\ file'.valid
          /\ last'.rule \in LoadList({}, file'.data)
          /\ \A x \in LoadList({}, file.data) : x.ID # last'.rule.ID => x \in LoadList({}, file'.data)]_vars

\* what AddRule writes: the rules of the map after the call, whatever the
\* file held
C28_AddWritesTheMap ==
  [][(last'.n # last.n /\ last'.op = "add" /\ last'.saved /\ dataFile # "")
       => (file'.exists /\ file'.valid /\ file'.data = getRulesInternal(rules'))]_vars

\* C2: after AddRule, or UpdateRule that returned true, the rule is in the
\* store (GetRules returns it) as long as no later call changes it, and the
\* data file holds it when the write succeeded.
C2_MutationVisible ==
  (last.op \in {"add", "update"} /\ last.ok)
    => /\ \E i \in 1..Len(getRulesInternal(rules)) : getRulesInternal(rules)[i] = last.rule
       /\ (dataFile # "" /\ last.saved)
            => (file.exists /\ file.valid /\ \E i \in 1..Len(file.data) : file.data[i] = last.rule)

\* the part of C2 about the data file alone
C2_FilePart ==
  (last.op \in {"add", "update"} /\ last.ok /\ dataFile # "" /\ last.saved)
    => (file.exists /\ file.valid /\ \E i \in 1..Len(file.data) : file.data[i] = last.rule)

\* ------------------------------------------------------------------------
\* The server alone: no other process touches the file, every write succeeds
\* ------------------------------------------------------------------------
MutateSaved ==
  \/ \E r \in StoreRules : AddRule(r, "ok")
  \/ \E r \in StoreRules : UpdateRule(r, "ok")
  \/ \E i \in Ids : DeleteRule(i, "ok")

NextServer == MutateSaved \/ Observe \/ Reload \/ Tick

SpecServer == Init /\ [][NextServer]_vars

\* C12: a reload replaces the in-memory set by exactly the rule set of the
\* file, in the one step that installs it, and the steps of
\* CheckAndReloadIfModified that install nothing (the file is not newer, or
\* the file is still being read) leave the in-memory set unchanged.
C12_ReloadInstallsFile ==
  [][/\ (ld.pc = "install" /\ ld'.pc = "idle")
          => (file.exists /\ file.valid /\ rules' = LoadList({}, file.data))
     /\ (ld' # ld /\ ld.pc # "install") => rules' = rules]_vars

\* the parts of C12 about the step of replacement: the set installed is the
\* set that was read from the file, nothing of the old set is merged into
\* it, and no other step of the reload changes the in-memory set
C12_AtomicPart ==
  [][/\ (ld.pc = "install" /\ ld'.pc = "idle")
          => (rules' = LoadList({}, ld.data) /\ fileModTime' = ld.mt)
     /\ (ld' # ld /\ ld.pc # "install") => (rules' = rules /\ fileModTime' = fileModTime)]_vars

\* C27: with no other writer of the file and every write succeeding, the map
\* is the result of the mutations in the order in which they held the lock;
\* a reload that runs beside them changes nothing of it: the step in which
\* a reload installs what it read leaves the map as the mutations made it.
C27_ReloadUndoesNothing ==
  [][(ld.pc = "install" /\ ld'.pc = "idle") => rules' = rules]_vars

\* ------------------------------------------------------------------------
\* The proxy over a store that was constructed from a data file and is not
\* changed afterwards
\* ------------------------------------------------------------------------
HttpRules ==
  {Rule(i, t, f, e) : i \in Ids, t \in {<< >>, <<"h">>},
                      f \in {ErrorFailure, Error503Failure, LatencyFailure, TimeoutFailure},
                      e \in BOOLEAN}

\* the arrays of at most two rules, with distinct IDs, that saveToFile writes
HttpFiles ==
  {<< >>} \cup {<<r>> : r \in HttpRules}
    \cup {<<r, q>> : r \in {x \in HttpRules : x.ID = "a"}, q \in {x \in HttpRules : x.ID = "b"}}

InitHttp ==
  /\ \E list \in HttpFiles : NewRuleState(<< >>, "faultline-rules.json", File(TRUE, list, 1))
  /\ clock = 1
  /\ ld = Idle
  /\ last = NoCall
  /\ nCalls = 0
  /\ http = NoRequest
  /\ TcpIdle
  /\ CliIdle
  /\ LockIdle

NextHttp ==
  \E m \in Methods, p \in ReqPaths, q \in ReqQueries, up \in Upstreams : HandleRequest(m, p, q, up)

SpecHttp == InitHttp /\ [][NextHttp]_vars

C4_EveryUnmatchedRequest ==
  (http.n > 0 /\ http.method # "OPTIONS" /\ http.up.ok /\ PrefixRules(rules, http.target) = {})
    => /\ Len(http.resp.forwards) = 1
       /\ http.resp.status = http.up.status
       /\ http.resp.body = http.up.body
       /\ http.resp.src # "injected"

\* C4 amended: a request that is not OPTIONS, for which FindRuleForTarget
\* returns no rule and whose target url.Parse accepts is forwarded once, with
\* that target, and gets no injected response; it gets the status and the
\* body of the upstream when the target has a scheme and a host and the
\* upstream answers, and 502 otherwise.
C4_UnmatchedParsedRequest ==
  (http.n > 0 /\ http.method # "OPTIONS" /\ ~http.matched /\ ~UrlParse(http.target).err)
    => /\ Len(http.resp.forwards) = 1
       /\ http.resp.forwards[1].target = http.target
       /\ http.resp.src # "injected"
       /\ http.resp.slept = 0
       /\ IF http.up.ok /\ UrlParse(http.target).Scheme # << >> /\ UrlParse(http.target).Host # << >>
          THEN http.resp.status = http.up.status /\ http.resp.body = http.up.body
          ELSE http.resp.status = 502

\* an unmatched request was forwarded and answered 404 by the upstream, while
\* the store holds an enabled rule
C4_Witness ==
  /\ http.n > 0 /\ http.method = "GET" /\ ~http.matched
  /\ Len(http.resp.forwards) = 1 /\ http.resp.status = 404 /\ http.up.status = 404
  /\ \E r \in rules : r.Enabled

\* ------------------------------------------------------------------------
\* The store with its content fixed: only GetRules and FindRuleForTarget are
\* called
\* ------------------------------------------------------------------------
NextFind == Observe

SpecFind == InitHttp /\ [][NextFind]_vars

\* C11: FindRuleForTarget is deterministic: on a store whose content does not
\* change, two successive calls for the same URL return the same result.
C11_FindDeterministic ==
  [][(last.op = "find" /\ last'.op = "find" /\ last'.n # last.n /\ last'.url = last.url)
       => (last'.ok = last.ok /\ last'.rule = last.rule)]_vars

\* ------------------------------------------------------------------------
\* Construction, for every data file and every list of initial rules
\* ------------------------------------------------------------------------
\* the files NewRuleState can find: none, one that does not parse, the
\* arrays saveToFile writes, and an array that names an ID twice
NewFiles ==
  {NoFile, File(FALSE, << >>, 1)}
    \cup {File(TRUE, list, 1) : list \in HttpFiles}
    \cup {File(TRUE, <<Rule("a", <<"h">>, ErrorFailure, FALSE), Rule("a", << >>, ErrorFailure, TRUE)>>, 1)}

InitNew ==
  /\ \E ir \in InitialRuleLists, df \in {"", "faultline-rules.json"}, f \in NewFiles :
       /\ NewRuleState(ir, df, f)
       /\ last = [NoCall EXCEPT !.op = "new", !.list = ir]
  /\ clock = 1
  /\ ld = Idle
  /\ nCalls = 0
  /\ http = NoRequest
  /\ TcpIdle
  /\ CliIdle
  /\ LockIdle

SpecNew == InitNew /\ [][NextFind]_vars

\* the rule set of an array of rules: of the entries of one ID, the last
FileRuleSet(d) == {d[i] : i \in {k \in 1..Len(d) : \A j \in (k + 1)..Len(d) : d[j].ID # d[k].ID}}

\* C15: a store constructed with a data file that exists and parses holds
\* exactly the rule set of the file, whatever initial rules were given, and
\* has recorded the file's modification time.
C15_FileIsAuthoritative ==
  (dataFile # "" /\ file.exists /\ file.valid)
    => (rules = FileRuleSet(file.data) /\ fileModTime = file.mtime)

\* a store just constructed with initial rules and with a file that holds a
\* rule: an initial rule is not in the store
C15_Witness ==
  /\ last.op = "new" /\ last.list # << >>
  /\ dataFile # "" /\ file.exists /\ file.valid /\ file.data # << >>
  /\ rules # {}
  /\ \E i \in 1..Len(last.list) : last.list[i] \notin rules

\* C17: a request for which a rule of type timeout is selected is delayed by
\* the latency of the rule, and is not forwarded without that delay.
C17_TimeoutDelays ==
  (http.n > 0 /\ http.method # "OPTIONS" /\ http.matched /\ http.rule.Failure.Type = "timeout")
    => /\ http.resp.slept = http.rule.Failure.LatencyMs
       /\ http.resp.slept > 0

\* C18: a request whose target is not an absolute URL (url.Parse rejects it,
\* or it has neither scheme nor host) is answered 400 and nothing is handed
\* to the upstream, whether or not a rule was selected.
C18_NonAbsoluteIs400 ==
  (/\ http.n > 0 /\ http.method # "OPTIONS"
   /\ \/ UrlParse(http.target).err
      \/ (UrlParse(http.target).Scheme = << >> /\ UrlParse(http.target).Host = << >>))
    => (http.resp.status = 400 /\ http.resp.forwards = << >>)

\* the part of C18 that the code does: a target url.Parse rejects is answered
\* 400 'Invalid target URL' and nothing is forwarded, when no rule is selected
C18_ParseErrorPart ==
  (http.n > 0 /\ http.method # "OPTIONS" /\ ~http.matched /\ UrlParse(http.target).err)
    => (http.resp.status = 400 /\ http.resp.body = "Invalid target URL" /\ http.resp.forwards = << >>)

\* C29 as stated: a request for which a latency rule is selected is
\* forwarded exactly once, after the delay of the rule, and its response is
\* not an injected one.
C29_LatencyThenOneForward ==
  (http.n > 0 /\ http.method # "OPTIONS" /\ http.matched /\ http.rule.Failure.Type = "latency")
    => /\ http.resp.slept = http.rule.Failure.LatencyMs
       /\ Len(http.resp.forwards) = 1
       /\ http.resp.forwards[1].after = http.rule.Failure.LatencyMs
       /\ http.resp.src # "injected"

\* C29 amended: the handler sleeps the delay of the rule first; then, when
\* url.Parse accepts the path without its leading slash, one request is
\* forwarded, after the delay, and the response is the upstream's when the
\* upstream answers and 502 otherwise; when url.Parse rejects it the
\* response is 400 and nothing is forwarded. The response is never an
\* injected one.
C29_LatencyThenForwardIfParsed ==
  (http.n > 0 /\ http.method # "OPTIONS" /\ http.matched /\ http.rule.Failure.Type = "latency")
    => LET remote == UrlParse(TrimSlash(http.path))
       IN /\ http.resp.slept = http.rule.Failure.LatencyMs
          /\ http.resp.src # "injected" /\ http.resp.body # InjectedErrorBody
          /\ IF remote.err
             THEN http.resp.status = 400 /\ http.resp.forwards = << >>
             ELSE /\ Len(http.resp.forwards) = 1
                  /\ http.resp.forwards[1].after = http.rule.Failure.LatencyMs
                  /\ IF http.up.ok /\ remote.Scheme # << >> /\ remote.Host # << >>
                     THEN http.resp.status = http.up.status /\ http.resp.body = http.up.body
                     ELSE http.resp.status = 502

\* a latency rule was selected, the handler slept 5 ms and then forwarded the
\* request, and the upstream's 404 was relayed
C29_Witness ==
  /\ http.n > 0 /\ http.method = "GET" /\ http.matched
  /\ http.rule.Failure = LatencyFailure /\ http.rule.Enabled
  /\ http.resp.slept = 5 /\ Len(http.resp.forwards) = 1 /\ http.resp.forwards[1].after = 5
  /\ http.resp.status = 404 /\ http.up.status = 404 /\ http.resp.src = "upstream"

\* C30: every request the proxy forwards is sent to the target reconstructed
\* from the request: the path without its leading slash, then '?' and the
\* raw query when there is one; with or without a rule selected.
C30_ForwardedTargetIsRequestTarget ==
  http.n > 0
    => \A i \in 1..Len(http.resp.forwards) :
         http.resp.forwards[i].target = RequestTarget(http.path, http.query)

\* what the code does on the paths through injectFailure: the target is the
\* path without its leading slash, and the raw query is not sent
C30_MatchedForwardDropsQuery ==
  (http.n > 0 /\ http.matched)
    => \A i \in 1..Len(http.resp.forwards) :
         /\ http.resp.forwards[i].target = TrimSlash(http.path)
         /\ http.resp.forwards[i].RawQuery = << >>

\* C31: the request sent upstream has the scheme, the host and the path of
\* the target of the request (the target's own path, never the incoming path
\* that embeds the whole target), and its Host is the target's host; with or
\* without a rule selected, with or without a query.
C31_UpstreamRequestIsTargets ==
  http.n > 0
    => \A i \in 1..Len(http.resp.forwards) :
         LET remote == UrlParse(RequestTarget(http.path, http.query))
             sent == http.resp.forwards[i]
         IN /\ ~remote.err
            /\ sent.Scheme = remote.Scheme
            /\ sent.Host = remote.Host
            /\ sent.Path = remote.Path
            /\ sent.ReqHost = remote.Host
            /\ sent.Path # http.path

\* a request for /x://h/x was forwarded with scheme x, host h and path /x
C31_Witness ==
  /\ http.n > 0 /\ http.method = "GET"
  /\ http.path = <<"/", "x", ":", "/", "/", "h", "/", "x">>
  /\ Len(http.resp.forwards) = 1
  /\ http.resp.forwards[1].Scheme = <<"x">>
  /\ http.resp.forwards[1].Host = <<"h">>
  /\ http.resp.forwards[1].ReqHost = <<"h">>
  /\ http.resp.forwards[1].Path = <<"/", "x">>
  /\ http.resp.src = "upstream"

\* C32: an OPTIONS request is answered with status 200 and the three
\* Access-Control-Allow-* headers; no rule is looked up for it, it is not
\* delayed, it gets no injected error and it is not forwarded.
C32_OptionsAnsweredDirectly ==
  (http.n > 0 /\ http.method = "OPTIONS")
    => /\ http.resp.status = 200
       /\ http.resp.headers = CorsHeaders("*")
       /\ Cardinality(http.resp.headers) = 3
       /\ ~http.matched /\ http.rule = NoRule
       /\ http.resp.slept = 0
       /\ http.resp.src = "options" /\ http.resp.body = ""
       /\ http.resp.forwards = << >>

\* an OPTIONS request whose target starts with the target of an enabled error
\* rule and of an enabled latency rule of the store was answered 200
C32_Witness ==
  /\ http.n > 0 /\ http.method = "OPTIONS" /\ http.resp.status = 200
  /\ http.resp.headers = CorsHeaders("*")
  /\ \E r \in rules : r.Enabled /\ r.Failure.Type = "error" /\ HasPrefix(http.target, r.Target)
  /\ \E r \in rules : r.Enabled /\ r.Failure.Type = "latency" /\ HasPrefix(http.target, r.Target)

\* ------------------------------------------------------------------------
\* The proxy over a store of flaky rules
\* ------------------------------------------------------------------------
InjectedFlakyBody == "FaultLine: Injected Flaky Error"

FlakyRules ==
  {Rule(i, t, FlakyFailure(p), e) : i \in Ids, t \in {<< >>, <<"h">>}, p \in {0, 50, 100}, e \in BOOLEAN}

FlakyFiles ==
  {<< >>} \cup {<<r>> : r \in FlakyRules}
    \cup {<<r, q>> : r \in {x \in FlakyRules : x.ID = "a"}, q \in {x \in FlakyRules : x.ID = "b"}}

InitFlaky ==
  /\ \E list \in FlakyFiles : NewRuleState(<< >>, "faultline-rules.json", File(TRUE, list, 1))
  /\ clock = 1
  /\ ld = Idle
  /\ last = NoCall
  /\ nCalls = 0
  /\ http = NoRequest
  /\ TcpIdle
  /\ CliIdle
  /\ LockIdle

SpecFlaky == InitFlaky /\ [][NextHttp]_vars

\* C16: a request for which a flaky rule is selected is, when the rule's
\* probability is 0, never answered with the injected 503 and is handed on
\* to the upstream, and, when the probability is 1, always answered 503 with
\* the body 'FaultLine: Injected Flaky Error' and not forwarded.
C16_FlakyExtremes ==
  (http.n > 0 /\ http.method # "OPTIONS" /\ http.matched /\ http.rule.Failure.Type = "flaky")
    => /\ http.rule.Failure.Probability = 0
            => /\ http.resp.src # "injected"
               /\ ~UrlParse(TrimSlash(http.path)).err => Len(http.resp.forwards) = 1
       /\ http.rule.Failure.Probability = 100
            => /\ http.resp.status = 503
               /\ http.resp.body = InjectedFlakyBody
               /\ http.resp.forwards = << >>

\* ------------------------------------------------------------------------
\* The proxy while another process writes the data file

NextProxyFile == Environment \/ NextHttp

SpecProxyFile == InitStore /\ [][NextProxyFile]_vars

\* C19: a request that arrives when the data file is newer than the last
\* load (and parses) is matched against the rule set of the file, with no
\* call of the control API in between: it selects a rule exactly when a rule
\* of the file matches its target, and the rule it selects is one of the file.
C19_RequestSeesFile ==
  [][(/\ http'.n # http.n /\ http'.method # "OPTIONS"
      /\ dataFile # "" /\ file.exists /\ file.valid /\ file.mtime > fileModTime)
       => /\ http'.matched <=> (\E r \in FileRuleSet(file.data) : RuleMatches(r, http'.target))
          /\ http'.matched => http'.rule \in FileRuleSet(file.data)]_vars

\* what the code does: a request is matched against the map as it is, and
\* leaves the map and the recorded modification time alone
C19_RequestSeesMemory ==
  [][(http'.n # http.n /\ http'.method # "OPTIONS")
       => /\ http'.matched <=> (\E r \in rules : RuleMatches(r, http'.target))
          /\ http'.matched => http'.rule \in rules
          /\ rules' = rules /\ fileModTime' = fileModTime]_vars

\* ------------------------------------------------------------------------
\* The TCP proxy alone, for every setting of its faults
\* ------------------------------------------------------------------------
InitTcp ==
  /\ NewRuleState(<< >>, "", NoFile)
  /\ clock = 1
  /\ ld = Idle
  /\ last = NoCall
  /\ nCalls = 0
  /\ http = NoRequest
  /\ faults \in FaultSets
  /\ nAccepted = 0
  /\ upstreamDials = 0
  /\ conn = NoConn
  /\ copier = NoCopiers
  /\ StartIdle
  /\ CliIdle
  /\ LockIdle

NextTcp ==
  \/ Accept
  \/ \E draw \in Draws, dialOk \in BOOLEAN : handleConn(draw, dialOk)
  \/ \E d \in Dirs : copyWithFaults(d)
  \/ handleConnWait

SpecTcp == InitTcp /\ [][NextTcp]_vars

\* the blocks direction d has read from its source
ReadOf(d) == SubSeq(Source(d), 1, copier[d].pos)

\* C5 as stated: with no drop probability, no bandwidth limit and no latency,
\* in each direction what was written to the destination is what was read
\* from the source, and the byte count is the number of bytes read.
C5_WrittenEqualsRead ==
  (faults.DropProbability = 0 /\ faults.BandwidthKbps = 0 /\ faults.LatencyMs = 0)
    => \A d \in Dirs :
         /\ copier[d].written = ReadOf(d)
         /\ copier[d].bytes = copier[d].pos * Block

\* C5 amended: with no drop probability, no bandwidth limit and no latency,
\* in each direction what was written is a prefix of what was read, the byte
\* count is the number of bytes written, and both are all that was read
\* unless a write to the destination failed; the copier never sleeps and
\* drops nothing.
C5_WrittenEqualsReadUnlessWriteFails ==
  (faults.DropProbability = 0 /\ faults.BandwidthKbps = 0 /\ faults.LatencyMs = 0)
    => \A d \in Dirs :
         /\ Len(copier[d].written) <= copier[d].pos
         /\ copier[d].written = SubSeq(ReadOf(d), 1, Len(copier[d].written))
         /\ copier[d].bytes = Len(copier[d].written) * Block
         /\ copier[d].exit # "writeerr"
              => (copier[d].written = ReadOf(d) /\ copier[d].bytes = copier[d].pos * Block)
         /\ copier[d].drops = 0
         /\ copier[d].throttleSleep = 0 /\ copier[d].latencySleep = 0

\* both directions have copied their whole stream in more than one chunk on a
\* connection without faults
C5_Witness ==
  /\ faults.DropProbability = 0 /\ faults.BandwidthKbps = 0 /\ faults.LatencyMs = 0
  /\ \A d \in Dirs :
       /\ copier[d].exit = "eof" /\ copier[d].chunks > 1
       /\ copier[d].written = Source(d)

\* C6: with RefuseConnections set, every accepted connection is closed by
\* handleConn without a dial to the upstream and without a copier started.
C6_RefusedNoDial ==
  faults.RefuseConnections
    => /\ upstreamDials = 0
       /\ conn.dials = 0 /\ conn.copiers = 0 /\ ~conn.upstreamOpen
       /\ \A d \in Dirs : copier[d].pc = "none"
       /\ conn.state \in {"none", "accepted", "closed"}
       /\ conn.state = "closed" => (conn.clientClosed /\ conn.how = "refused")

\* the second connection the refusing listener accepted has been closed
C6_Witness ==
  /\ faults.RefuseConnections
  /\ nAccepted = 2
  /\ conn.state = "closed" /\ conn.clientClosed

\* the TCP proxy with the steps the Go scheduler guarantees: handleConn runs
\* when it can, and the copier that reads from the client makes progress (the
\* client sends or closes); the copier that reads from the upstream may stay
\* blocked in src.Read for ever, since the upstream may neither send nor close
SpecTcpFair ==
  /\ InitTcp /\ [][NextTcp]_vars
  /\ WF_vars(\E draw \in Draws, dialOk \in BOOLEAN : handleConn(draw, dialOk))
  /\ WF_vars(handleConnWait)
  /\ WF_vars(copyWithFaults("c->u"))

\* C20: once one of the two copiers of a connection has returned, both
\* sockets are closed and the connection reaches Closed, also when the
\* upstream neither sends nor closes.
C20_EitherReturnClosesBoth ==
  (conn.state = "proxying" /\ \E d \in Dirs : copier[d].pc = "done")
    ~> (conn.state = "closed" /\ conn.clientClosed /\ conn.upstreamClosed)

\* what the code does: the sockets of a proxied connection are closed only
\* after both copiers have returned, and then both are closed
C20_ClosedAfterBoth ==
  [][(conn.state = "proxying" /\ conn'.state = "closed")
       => /\ \A d \in Dirs : copier[d].pc = "done"
          /\ conn'.clientClosed /\ conn'.upstreamClosed]_vars

\* C23: with a bandwidth limit, the bytes a direction has written in the
\* current throttle window never exceed bandwidthKbps * 1024.
C23_WindowWithinBudget ==
  faults.BandwidthKbps > 0
    => \A d \in Dirs : copier[d].sentThisWindow <= faults.BandwidthKbps * Block

\* what the code keeps: the bytes written in the current window are within
\* the budget, or are those of one chunk written first in its window
C23_WithinBudgetOrOneChunk ==
  faults.BandwidthKbps > 0
    => \A d \in Dirs :
         \/ copier[d].sentThisWindow <= faults.BandwidthKbps * Block
         \/ copier[d].sentThisWindow <= Min(MaxChunk, BufBlocks) * Block

\* the order of the steps of handleConn
StepOrder == <<"refuse", "latency", "reset", "dial">>

StepRank(x) == CHOOSE i \in 1..Len(StepOrder) : StepOrder[i] = x

\* C33: the steps of a connection are taken in the order refuse check,
\* initial latency sleep, reset draw, upstream dial, and a connection that
\* was reset is closed with no dial made and no upstream connection opened.
C33_ResetBeforeDial ==
  /\ \A i \in 1..Len(conn.steps) : \A j \in 1..Len(conn.steps) :
       i < j => StepRank(conn.steps[i]) < StepRank(conn.steps[j])
  /\ conn.how = "reset"
       => /\ conn.state = "closed" /\ conn.clientClosed
          /\ conn.dials = 0 /\ ~conn.upstreamOpen /\ conn.copiers = 0
          /\ conn.steps[Len(conn.steps)] = "reset"
          /\ conn.slept = faults.LatencyMs
  /\ conn.dials > 0 => conn.steps[Len(conn.steps)] = "dial"
  /\ upstreamDials <= nAccepted

\* a connection was reset after the refuse check and the sleep of 5 ms, with
\* no dial
C33_Witness ==
  /\ conn.state = "closed" /\ conn.how = "reset"
  /\ conn.steps = <<"refuse", "latency", "reset">>
  /\ conn.slept = 5 /\ conn.dials = 0 /\ upstreamDials = 0

\* C34: a connection in Closed has its client socket closed and, when an
\* upstream socket was opened, that socket closed too, whichever way it was
\* closed (refuse, reset, dial failure, end of proxying); no copier runs for
\* it, and it stays as it is: the only step from Closed is the accept of the
\* next connection.
C34_ClosedReleasesSockets ==
  [][/\ conn'.state = "closed"
          => /\ conn'.clientClosed
             /\ conn'.upstreamOpen => conn'.upstreamClosed
             /\ conn'.how \in {"refused", "reset", "dialfail", "done"}
             /\ (conn'.how = "done") = conn'.upstreamOpen
             /\ \A d \in Dirs : copier'[d].pc # "running"
     /\ conn.state = "closed"
          => \/ conn' = conn /\ copier' = copier
             \/ nAccepted' = nAccepted + 1 /\ conn' = [NoConn EXCEPT !.state = "accepted"]]_vars

\* a proxied connection was closed with both sockets closed, after an earlier
\* connection had been closed
C34_Witness ==
  /\ conn.state = "closed" /\ conn.how = "done" /\ nAccepted = 2
  /\ conn.clientClosed /\ conn.upstreamOpen /\ conn.upstreamClosed
  /\ \A d \in Dirs : copier[d].pc = "done"

\* s is t with some elements left out, the others in the order of t
RECURSIVE IsSubsequence(_, _)
IsSubsequence(s, t) ==
  IF s = << >> THEN TRUE
  ELSE IF t = << >> THEN FALSE
  ELSE IF Head(s) = Head(t) THEN IsSubsequence(Tail(s), Tail(t))
  ELSE IsSubsequence(s, Tail(t))

\* direction d has read one more chunk in this step
ReadsChunk(d) ==
  /\ conn.state = "proxying" /\ conn'.state = "proxying"
  /\ copier[d].pc = "running"
  /\ copier'[d].chunks = copier[d].chunks + 1

\* the chunk direction d has read in this step
ChunkRead(d) == SubSeq(Source(d), copier[d].pos + 1, copier'[d].pos)

\* C35 as stated: in each direction, whatever the faults, a chunk selected
\* for drop is not written and every other chunk read is written once, whole,
\* behind what was written before; what was written is a subsequence of what
\* was read.
C35_ChunkDroppedOrWritten ==
  [][\A d \in Dirs :
       ReadsChunk(d)
         => /\ IsSubsequence(copier'[d].written, SubSeq(Source(d), 1, copier'[d].pos))
            /\ IF copier'[d].drops = copier[d].drops + 1
               THEN copier'[d].written = copier[d].written
               ELSE copier'[d].written = copier[d].written \o ChunkRead(d)]_vars

\* C35 amended: a chunk selected for drop is not written; every other chunk
\* read is written once, whole, behind what was written before, unless its
\* write fails: then the part of it the destination took is written and the
\* copier exits. What was written is always a subsequence of what was read.
C35_ChunkDroppedOrWrittenUnlessWriteFails ==
  [][\A d \in Dirs :
       ReadsChunk(d)
         => /\ IsSubsequence(copier'[d].written, SubSeq(Source(d), 1, copier'[d].pos))
            /\ IF copier'[d].drops = copier[d].drops + 1
               THEN copier'[d].written = copier[d].written
               ELSE \/ copier'[d].written = copier[d].written \o ChunkRead(d)
                    \/ /\ copier'[d].pc = "done" /\ copier'[d].exit = "writeerr"
                       /\ \E k \in 0..(Len(ChunkRead(d)) - 1) :
                            copier'[d].written = copier[d].written \o SubSeq(ChunkRead(d), 1, k)]_vars

\* with drops, latency and a bandwidth limit, a direction has read three
\* chunks, dropped the second and written the first and the third
C35_Witness ==
  /\ faults.DropProbability = 50 /\ faults.LatencyMs = 5 /\ faults.BandwidthKbps = 1
  /\ \E d \in Dirs :
       /\ copier[d].chunks = 3 /\ copier[d].drops = 1 /\ copier[d].writes = 2
       /\ copier[d].pos = 3
       /\ copier[d].written = <<Source(d)[1], Source(d)[3]>>

\* C38: after every iteration of a copier, chunks = drops + writes and bytes
\* is the number of bytes written to the destination; an iteration that read
\* a chunk either counts one drop and writes nothing or counts one write and
\* the bytes that write took, and an iteration that read nothing changes no
\* counter.
C38_CountersAgree ==
  [][\A d \in Dirs :
       LET c == copier[d]
           k == copier'[d]
       IN /\ k.chunks = k.drops + k.writes
          /\ k.bytes = Len(k.written) * Block
          /\ ReadsChunk(d)
               => \/ /\ k.drops = c.drops + 1 /\ k.writes = c.writes
                     /\ k.written = c.written /\ k.bytes = c.bytes
                  \/ /\ k.drops = c.drops /\ k.writes = c.writes + 1
                     /\ k.bytes - c.bytes = (Len(k.written) - Len(c.written)) * Block
          /\ (conn.state = "proxying" /\ conn'.state = "proxying" /\ k.chunks = c.chunks)
               => k.drops = c.drops /\ k.writes = c.writes /\ k.bytes = c.bytes]_vars

\* a copier has read three chunks of one block: one was dropped, one was
\* written, and the write of the other took nothing and ended the copier
C38_Witness ==
  \E d \in Dirs :
    /\ copier[d].pc = "done" /\ copier[d].exit = "writeerr"
    /\ copier[d].chunks = 3 /\ copier[d].drops = 1 /\ copier[d].writes = 2
    /\ copier[d].bytes = Block /\ copier[d].pos = 3

\* ------------------------------------------------------------------------
\* The TCP proxy with probabilities configured outside [0, 1]
\* ------------------------------------------------------------------------

\* dropProbability and resetProbability in percent: below 0, 0, between,
\* 1 and above 1; no other fault
ProbFaultSets ==
  [RefuseConnections : {FALSE}, LatencyMs : {0}, ResetProbability : {-50, 0, 50, 100, 150},
   DropProbability : {-50, 0, 50, 100, 150}, BandwidthKbps : {0}]

InitTcpProb ==
  /\ NewRuleState(<< >>, "", NoFile)
  /\ clock = 1
  /\ ld = Idle
  /\ last = NoCall
  /\ nCalls = 0
  /\ http = NoRequest
  /\ faults \in ProbFaultSets
  /\ nAccepted = 0
  /\ upstreamDials = 0
  /\ conn = NoConn
  /\ copier = NoCopiers
  /\ StartIdle
  /\ CliIdle
  /\ LockIdle

SpecTcpProb == InitTcpProb /\ [][NextTcp]_vars

RngOf(d) == "tcp.rng"

\* rng.Float64() is called with no mutex held, and a generator made by
\* rand.New(rand.NewSource(..)) has none of its own
RngLocked == FALSE

\* the next iteration of copier d draws: the copier runs, a drop probability
\* is configured and its source has a chunk to give; nothing orders that
\* iteration with the iterations of the other goroutines
AtDraw(d) ==
  /\ conn.state = "proxying"
  /\ copier[d].pc = "running"
  /\ faults.DropProbability > 0
  /\ copier[d].pos < Len(Source(d))

\* C37: no two tasks draw on the same random source at the same time: two
\* copiers that can both be in their draw use different generators, or a
\* generator that is locked.
C37_DrawsExcluded ==
  \A d1 \in Dirs : \A d2 \in Dirs \ {d1} :
    (AtDraw(d1) /\ AtDraw(d2)) => (RngOf(d1) # RngOf(d2) \/ RngLocked)

\* ------------------------------------------------------------------------
\* Start alone: the accept loop, the stop channel and the handlers

InitStart ==
  /\ NewRuleState(<< >>, "", NoFile)
  /\ clock = 1
  /\ ld = Idle
  /\ last = NoCall
  /\ nCalls = 0
  /\ http = NoRequest
  /\ TcpIdle
  /\ CliIdle
  /\ LockIdle

NextStart ==
  \/ \E ok \in BOOLEAN : StartListen(ok)
  \/ CloseStop
  \/ WatchStop
  \/ StartAccept
  \/ \E err \in {"closed", "timeout", "other"} : StartAcceptError(err)
  \/ \E i \in 1..MaxHandlers : HandlerReturn(i)
  \/ StartReturn

SpecStart == InitStart /\ [][NextStart]_vars

\* C21: when Start has returned nil, no handler it started is still running;
\* a handler that has returned has closed its connection.
C21_ReturnedMeansDrained ==
  (start.pc = "returned" /\ start.ret = "nil")
    => /\ \A i \in 1..MaxHandlers : handlers[i] # "running"
       /\ start.wg = 0
       /\ start.stop /\ start.ln = "closed"

C21_Witness ==
  /\ start.pc = "returned" /\ start.ret = "nil"
  /\ handlers[1] = "done" /\ handlers[2] = "done"

\* Start as the Go scheduler runs it: every goroutine that can take a step
\* takes it, and the connections in flight finish (their handlers return)
SpecStartFair ==
  /\ InitStart /\ [][NextStart]_vars
  /\ WF_vars(\E ok \in BOOLEAN : StartListen(ok))
  /\ WF_vars(WatchStop)
  /\ WF_vars(StartAcceptError("closed"))
  /\ WF_vars(StartReturn)
  /\ \A i \in 1..MaxHandlers : WF_vars(HandlerReturn(i))

CliFiles ==
  { << >>,
    <<Rule("a", <<"h">>, ErrorFailure, TRUE)>>,
    <<Rule("a", <<"h">>, ErrorFailure, TRUE), Rule("b", <<"h">>, ErrorFailure, TRUE)>>,
    <<Rule("a", <<"x">>, LatencyFailure, FALSE), Rule("b", << >>, TimeoutFailure, TRUE)>> }

InitCli ==
  /\ \E list \in CliFiles : NewRuleState(<< >>, "faultline-rules.json", File(TRUE, list, 1))
  /\ clock = 1
  /\ ld = Idle
  /\ last = NoCall
  /\ nCalls = 0
  /\ http = NoRequest
  /\ TcpIdle
  /\ CliIdle
  /\ LockIdle

NextCli ==
  \/ listRules
  \/ \E number \in 0..3, enable \in BOOLEAN, w \in WriteOutcomes : toggleRuleByNumber(number, enable, w)
  \/ \E w \in WriteOutcomes : exportRules(w)
  \/ \E w \in WriteOutcomes : importRules(w)
  \/ \E df \in {"", "faultline-rules.json"} : NewProcess(df)
  \/ Tick

SpecCli == InitCli /\ [][NextCli]_vars

\* the set of the rules of a list
ListSet(list) == {list[i] : i \in 1..Len(list)}

TupleOf(r) == <<r.Target, r.Failure, r.Enabled>>

TupleBag(S) == [t \in {TupleOf(r) : r \in S} |-> Cardinality({r \in S : TupleOf(r) = t})]

\* C25: an import into an empty store of the file the last export wrote gives
\* a store with the same (target, failure, enabled) tuples, each as many
\* times, as the store that was exported.
C25_ExportImportPreservesTuples ==
  [][(/\ last.op = "export" /\ last.ok
      /\ rules = {}
      /\ last'.n # last.n /\ last'.op = "import")
       => /\ last'.ok
          /\ TupleBag(rules') = TupleBag(ListSet(last.list))
          /\ Cardinality(rules') = Len(last.list)]_vars

C25_Witness ==
  /\ last.op = "import" /\ last.ok
  /\ Cardinality(rules) = 2
  /\ \A r \in rules : r.ID \in Uuids /\ TupleOf(r) = <<(<<"h">>), ErrorFailure, TRUE>>
  /\ exportFile.exists /\ exportFile.valid /\ Len(exportFile.data) = 2

\* ------------------------------------------------------------------------
\* Concurrent calls of the store

InitLock ==
  /\ \E f \in InitFiles : NewRuleState(<< >>, "faultline-rules.json", f)
  /\ clock = 1
  /\ ld = Idle
  /\ last = NoCall
  /\ nCalls = 0
  /\ http = NoRequest
  /\ TcpIdle
  /\ CliIdle
  /\ LockIdle

NextLock ==
  \/ \E t \in Threads, op \in {"reload", "add", "get"} : Call(t, op, Rule("b", <<"h">>, ErrorFailure, TRUE))
  \/ \E t \in Threads : Check(t) \/ Stat(t) \/ ReadFile(t)
  \/ \E t \in Threads : Lock(t) \/ Install(t) \/ Unlock(t)
  \/ \E t \in Threads, w \in {"ok", "partial"} : Put(t, w)
  \/ \E t \in Threads : RLock(t) \/ Snapshot(t) \/ RUnlock(t)
  \/ Tick

SpecLock == InitLock /\ [][NextLock]_vars

\* the positions at which a goroutine is about to read, or to write, the map
\* or the recorded modification time
ReadsShared(t) == caller[t].pc \in {"check", "snapshot"}

WritesShared(t) == caller[t].pc \in {"install", "put"}

\* C26: a goroutine reads the map or the recorded modification time only
\* with the lock held (shared or exclusive) and writes them only with the
\* lock held exclusively, so that no goroutine is at a write while another
\* is at a read or a write.
C26_AccessUnderLock ==
  /\ \A t \in Threads : ReadsShared(t) => (mu.w = t \/ t \in mu.r)
  /\ \A t \in Threads : WritesShared(t) => mu.w = t
  /\ \A t1 \in Threads : \A t2 \in Threads \ {t1} :
       ~(WritesShared(t1) /\ (ReadsShared(t2) \/ WritesShared(t2)))

\* the race of C26: a goroutine is about to assign rs.fileModTime in
\* loadFromFile while another is about to read it in CheckAndReloadIfModified
C26_NoRaceOnModTime ==
  \A t1 \in Threads : \A t2 \in Threads \ {t1} :
    ~(caller[t1].pc = "install" /\ caller[t2].pc = "check")

\* what the code keeps: the map is read and written under the lock, the
\* modification time is written under the lock, and the lock excludes
C26_MapUnderLock ==
  /\ \A t \in Threads : caller[t].pc = "snapshot" => t \in mu.r
  /\ \A t \in Threads : WritesShared(t) => mu.w = t
  /\ mu.w # 0 => mu.r = {}
  /\ \A t1 \in Threads : \A t2 \in Threads \ {t1} :
       ~(WritesShared(t1) /\ (caller[t2].pc = "snapshot" \/ WritesShared(t2)))

\* ------------------------------------------------------------------------
\* The numbers of 'rules list'
\* ------------------------------------------------------------------------

\* the IDs of the rules of a set
IdsOf(S) == {r.ID : r \in S}

\* C39: when the store holds the rules of the same IDs as at the previous
\* command (a list, an enable or a disable; a new process may have loaded the
\* file in between), the number given to enable or disable designates the rule
\* that had this number in the list of the previous command, and a number
\* that was not in that list designates no rule.
C39_NumberDesignatesListedRule ==
  [][(/\ last.op \in {"list", "enable", "disable"}
      /\ last'.n # last.n
      /\ last'.op \in {"enable", "disable"}
      /\ IdsOf(rules) = IdsOf(ListSet(last.list)))
       => /\ Len(last'.list) = Len(last.list)
          /\ \A k \in 1..Len(last.list) : last'.list[k].ID = last.list[k].ID
          /\ IF last'.num \in 1..Len(last.list)
             THEN last'.rule.ID = last.list[last'.num].ID
             ELSE last'.rule = NoRule]_vars

\* 'rules disable 1' disabled rule a, and 'rules disable 1' given again still
\* designated rule a, of two rules
C39_Witness ==
  /\ last.n = 2 /\ last.op = "disable" /\ last.num = 1
  /\ Len(last.list) = 2
  /\ last.rule.ID = "a" /\ last.list[1].ID = "a" /\ ~last.list[1].Enabled
  /\ last.list[2].Enabled

Next == Mutate \/ Observe \/ Reload \/ Environment

Spec == Init /\ [][Next]_vars
====
